---- MODULE Spec2Model ----
(***************************************************************************)
(* A model of the local signing and verification core of the Counterparty *)
(* MCP server (src/src/api-client.ts, lines 78-367) and of the tool layer  *)
(* that calls it (src/src/tools/bitcoin.ts, src/unnamed/part_001).         *)
(*                                                                         *)
(* Values the third-party libraries produce (@scure/btc-signer,            *)
(* @noble/curves) are modelled at the call boundary: a raw transaction     *)
(* string is either malformed hex, bytes that Transaction.fromRaw rejects, *)
(* or the transaction fromRaw returns; a lock-script string is either      *)
(* malformed hex or the script it decodes to.                              *)
(***************************************************************************)
EXTENDS Integers, Sequences, FiniteSets, TLC

VARIABLES
    signingConfig,  \* the SigningConfig of the process, or NoConfig
    pc,             \* position of the operation in progress
    args,           \* arguments of the operation in progress
    result,         \* outcome of the last signTransaction / extractOpReturnData
    heap,           \* byte buffers signTransaction allocated, with their contents
    prior,          \* outcome of the previous extraction of the same hex
    node,           \* what the remote Counterparty node currently does
    requests,       \* HTTP requests sent during the invocation in progress
    locals,         \* locals of the sign_and_broadcast handler
    steps,          \* operations performed so far, each with the node state it ran under
    agentView       \* what the calling agent has received from this invocation

vars == <<signingConfig, pc, args, result, heap, prior, node, requests,
          locals, steps, agentView>>

----------------------------------------------------------------------------
(* Bounds of the model. *)

MaxInputs == 2
MaxOutputs == 2
MaxAddrLen == 4
MaxCalls == 2
MaxScriptLen == 4
MaxDataLen == 3

----------------------------------------------------------------------------
(* Bytes and hex strings (@noble/hashes/utils hexToBytes / bytesToHex). *)

Nothing == [kind |-> "nothing"]

RECURSIVE Xor(_, _)
Xor(a, b) ==
    IF a = 0 THEN b
    ELSE IF b = 0 THEN a
    ELSE ((a + b) % 2) + 2 * Xor(a \div 2, b \div 2)

RECURSIVE Flatten(_)
Flatten(ss) == IF ss = <<>> THEN <<>> ELSE Head(ss) \o Flatten(Tail(ss))

HexDigits ==
    <<"0", "1", "2", "3", "4", "5", "6", "7",
      "8", "9", "a", "b", "c", "d", "e", "f">>

IsHexDigit(c) == \E i \in 1..16 : HexDigits[i] = c

HexValue(c) == (CHOOSE i \in 1..16 : HexDigits[i] = c) - 1

bytesToHex(bytes) ==
    Flatten([i \in 1..Len(bytes) |->
        <<HexDigits[(bytes[i] \div 16) + 1], HexDigits[(bytes[i] % 16) + 1]>>])

Zeros(n) == [i \in 1..n |-> 0]

\* hexToBytes throws on an odd length or a character that is no hex digit.
DecodeHex(hex) ==
    IF Len(hex) % 2 # 0 \/ \E i \in 1..Len(hex) : ~IsHexDigit(hex[i])
    THEN [ok |-> FALSE, error |-> "hex"]
    ELSE [ok |-> TRUE,
          bytes |-> Flatten([i \in 1..(Len(hex) \div 2) |->
                        <<16 * HexValue(hex[2 * i - 1]) + HexValue(hex[2 * i])>>])]

\* The decodings of the key strings the model uses, computed once.
DecodedKeys ==
    [hex \in {bytesToHex(Zeros(31) \o <<k>>) : k \in 0..2} |-> DecodeHex(hex)]

hexToBytes(hex) ==
    IF hex \in DOMAIN DecodedKeys THEN DecodedKeys[hex] ELSE DecodeHex(hex)

\* Uint8Array.prototype.fill(0)
FillZero(buffer) == Zeros(Len(buffer))

AllZero(buffer) == \A i \in 1..Len(buffer) : buffer[i] = 0

----------------------------------------------------------------------------
(* The stream cipher and the script codec. *)

CNTRPRTY_PREFIX == <<67, 78, 84, 82, 80, 82, 84, 89>>
OP_RETURN == 106
OP_PUSHDATA1 == 76
OP_PUSHDATA2 == 77
MaxDirectPush == 75
PrefixLen == 8

\* The permutation S of the source (indexed 0..255) is the sequence P with
\* P[n + 1] = S[n].
At(P, n) == P[n + 1]

Swap(P, i, j) == [P EXCEPT ![i + 1] = P[j + 1], ![j + 1] = P[i + 1]]

\* <<lo, lo + 1, ..., hi>>
RECURSIVE Range(_, _)
Range(lo, hi) ==
    IF lo = hi THEN <<lo>>
    ELSE Range(lo, (lo + hi) \div 2) \o Range(((lo + hi) \div 2) + 1, hi)

\* One round of the key schedule: st = [S, j].
KeyRound(key, st, i) ==
    LET j2 == (st.j + At(st.S, i) + key[(i % Len(key)) + 1]) % 256
    IN  [S |-> Swap(st.S, i, j2), j |-> j2]

\* Rounds lo..hi of the key schedule, in order.  The range is split in halves
\* and the first half is computed before the second is entered, which bounds
\* the nesting depth of the evaluation; the rounds are those of the source's loop.
RECURSIVE KeySchedule(_, _, _, _)
KeySchedule(key, st, lo, hi) ==
    IF lo = hi THEN KeyRound(key, st, lo)
    ELSE LET mid == (lo + hi) \div 2
             half == KeySchedule(key, st, lo, mid)
         IN  IF half.j \in 0..255 THEN KeySchedule(key, half, mid + 1, hi) ELSE half

\* Keystream generation and XOR for data[k..], with running indices ii, jj.
RECURSIVE KeyStream(_, _, _, _, _)
KeyStream(S, data, k, ii, jj) ==
    IF k > Len(data) THEN <<>>
    ELSE LET i2 == (ii + 1) % 256
             j2 == (jj + At(S, i2)) % 256
             S2 == Swap(S, i2, j2)
         IN  <<Xor(data[k], At(S2, (At(S2, i2) + At(S2, j2)) % 256))>>
             \o KeyStream(S2, data, k + 1, i2, j2)

\* The first input's txid of the transactions the model draws (the txids of
\* the two regtest transactions of src/src/signer.test.ts, as btc-signer gives them).
TxidA ==
    <<242, 236, 59, 6, 178, 20, 87, 47, 198, 2, 72, 18, 229, 93, 236, 176,
      61, 5, 225, 99, 135, 41, 15, 5, 249, 194, 127, 40, 188, 0, 87, 186>>
TxidB ==
    <<122, 181, 208, 71, 22, 225, 132, 104, 184, 218, 25, 19, 80, 59, 91, 38,
      55, 247, 77, 98, 91, 166, 103, 163, 34, 99, 41, 138, 90, 42, 146, 66>>

IdentityState == [S |-> Range(0, 255), j |-> 0]

\* The permutation after the key schedule, computed once for the txids above.
ScheduledTxids ==
    [key \in {TxidA, TxidB} |-> KeySchedule(key, IdentityState, 0, 255).S]

\* Keys of one, two and three bytes, and their permutations, computed once.
ShortKeys == {<<0>>, <<1, 2>>, <<255, 0, 7>>}

ScheduledShortKeys ==
    [key \in ShortKeys |-> KeySchedule(key, IdentityState, 0, 255).S]

Scheduled(key) ==
    IF key \in DOMAIN ScheduledTxids THEN ScheduledTxids[key]
    ELSE IF key \in DOMAIN ScheduledShortKeys THEN ScheduledShortKeys[key]
    ELSE KeySchedule(key, IdentityState, 0, 255).S

\* script is a byte sequence indexed from 1: script[n + 1] is the source's script[n].
\* An extractPushData without the test of the script length against the
\* declared length: slice gives what bytes there are.
extractPushDataUnchecked(script) ==
    IF Len(script) < 2 \/ script[1] # OP_RETURN THEN Nothing
    ELSE LET pushByte == script[2]
             header ==
                 IF pushByte = OP_PUSHDATA1
                 THEN IF Len(script) < 3 THEN Nothing
                      ELSE [kind |-> "push", dataLen |-> script[3], dataStart |-> 3]
                 ELSE IF pushByte = OP_PUSHDATA2
                 THEN IF Len(script) < 4 THEN Nothing
                      ELSE [kind |-> "push", dataLen |-> script[3] + 256 * script[4],
                            dataStart |-> 4]
                 ELSE IF pushByte >= 1 /\ pushByte <= MaxDirectPush
                 THEN [kind |-> "push", dataLen |-> pushByte, dataStart |-> 2]
                 ELSE Nothing
         IN  IF header = Nothing THEN Nothing
             ELSE [kind |-> "data",
                   data |-> SubSeq(script, header.dataStart + 1,
                                   IF Len(script) < header.dataStart + header.dataLen
                                   THEN Len(script)
                                   ELSE header.dataStart + header.dataLen)]

\* An extractPushData that reads the PUSHDATA2 length high byte first.
extractPushDataBigEndian(script) ==
    IF Len(script) < 2 \/ script[1] # OP_RETURN THEN Nothing
    ELSE LET pushByte == script[2]
             header ==
                 IF pushByte = OP_PUSHDATA1
                 THEN IF Len(script) < 3 THEN Nothing
                      ELSE [kind |-> "push", dataLen |-> script[3], dataStart |-> 3]
                 ELSE IF pushByte = OP_PUSHDATA2
                 THEN IF Len(script) < 4 THEN Nothing
                      ELSE [kind |-> "push", dataLen |-> 256 * script[3] + script[4],
                            dataStart |-> 4]
                 ELSE IF pushByte >= 1 /\ pushByte <= MaxDirectPush
                 THEN [kind |-> "push", dataLen |-> pushByte, dataStart |-> 2]
                 ELSE Nothing
         IN  IF header = Nothing THEN Nothing
             ELSE IF Len(script) < header.dataStart + header.dataLen THEN Nothing
             ELSE [kind |-> "data",
                   data |-> SubSeq(script, header.dataStart + 1,
                                   header.dataStart + header.dataLen)]

\* The indices (0-based, as in the code) of the script bytes that
\* extractPushData reads: script[0], script[1], the length bytes, the slice.
extractPushDataReads(script) ==
    IF Len(script) < 2 THEN {}
    ELSE IF script[1] # OP_RETURN THEN {0}
    ELSE LET pushByte == script[2]
             header ==
                 IF pushByte = OP_PUSHDATA1
                 THEN IF Len(script) < 3 THEN Nothing
                      ELSE [kind |-> "push", dataLen |-> script[3], dataStart |-> 3,
                            read |-> {2}]
                 ELSE IF pushByte = OP_PUSHDATA2
                 THEN IF Len(script) < 4 THEN Nothing
                      ELSE [kind |-> "push", dataLen |-> script[3] + 256 * script[4],
                            dataStart |-> 4, read |-> {2, 3}]
                 ELSE IF pushByte >= 1 /\ pushByte <= MaxDirectPush
                 THEN [kind |-> "push", dataLen |-> pushByte, dataStart |-> 2,
                       read |-> {}]
                 ELSE Nothing
         IN  IF header = Nothing THEN {0, 1}
             ELSE IF Len(script) < header.dataStart + header.dataLen
             THEN {0, 1} \cup header.read
             ELSE {0, 1} \cup header.read
                  \cup header.dataStart .. (header.dataStart + header.dataLen - 1)

extractPushData(script) ==
    IF Len(script) < 2 \/ script[1] # OP_RETURN THEN Nothing
    ELSE LET pushByte == script[2]
             header ==
                 IF pushByte = OP_PUSHDATA1
                 THEN IF Len(script) < 3 THEN Nothing
                      ELSE [kind |-> "push", dataLen |-> script[3], dataStart |-> 3]
                 ELSE IF pushByte = OP_PUSHDATA2
                 THEN IF Len(script) < 4 THEN Nothing
                      ELSE [kind |-> "push", dataLen |-> script[3] + 256 * script[4],
                            dataStart |-> 4]
                 ELSE IF pushByte >= 1 /\ pushByte <= MaxDirectPush
                 THEN [kind |-> "push", dataLen |-> pushByte, dataStart |-> 2]
                 ELSE Nothing
         IN  IF header = Nothing THEN Nothing
             ELSE IF Len(script) < header.dataStart + header.dataLen THEN Nothing
             ELSE [kind |-> "data",
                   data |-> SubSeq(script, header.dataStart + 1,
                                   header.dataStart + header.dataLen)]

\* Output scripts: the OP_RETURN script and the change script of the enhanced
\* send of src/src/signer.test.ts.
ScriptEnhancedSend ==
    <<106, 38, 183, 216, 105, 206, 118, 194, 249, 75, 103, 187, 179, 27, 160,
      49, 101, 158, 225, 70, 244, 230, 70, 68, 72, 214, 212, 134, 195, 230,
      145, 180, 233, 109, 150, 188, 94, 209, 12, 252>>
ScriptChange ==
    <<0, 20, 125, 208, 232, 140, 23, 153, 183, 169, 216, 243, 253, 195, 181,
      29, 199, 72, 162, 250, 103, 41>>

\* An unencrypted tagged push, a push that differs from the tag in its eighth
\* byte, a push shorter than the tag, and a PUSHDATA1 push encrypted under TxidB.
ScriptRawTag == <<OP_RETURN, 10>> \o CNTRPRTY_PREFIX \o <<1, 2>>
ScriptNearMiss == <<OP_RETURN, 10, 67, 78, 84, 82, 80, 82, 84, 88, 1, 2>>
ScriptShortPush == <<OP_RETURN, 4, 67, 78, 84, 82>>
ScriptPushdata1 == <<OP_RETURN, OP_PUSHDATA1, 9, 67, 247, 74, 160, 204, 3, 89, 14, 157>>

\* The decryptions of the pushes above under the txids above, computed once.
DecryptedPushes ==
    [kd \in {<<key, extractPushData(sc).data>> :
                key \in {TxidA, TxidB},
                sc \in {ScriptEnhancedSend, ScriptRawTag, ScriptNearMiss,
                        ScriptPushdata1}} |->
        KeyStream(Scheduled(kd[1]), kd[2], 1, 0, 0)]

arc4Decrypt(key, data) ==
    IF <<key, data>> \in DOMAIN DecryptedPushes THEN DecryptedPushes[<<key, data>>]
    ELSE KeyStream(Scheduled(key), data, 1, 0, 0)

\* A prefix test that stops one byte early.
hasCntrprtyPrefixShort(data) ==
    IF Len(data) < PrefixLen THEN FALSE
    ELSE \A i \in 1..(PrefixLen - 1) : data[i] = CNTRPRTY_PREFIX[i]

hasCntrprtyPrefix(data) ==
    IF Len(data) < PrefixLen THEN FALSE
    ELSE \A i \in 1..PrefixLen : data[i] = CNTRPRTY_PREFIX[i]

----------------------------------------------------------------------------
(* Raw transactions, as Transaction.fromRaw of @scure/btc-signer gives them. *)

BadHexTx == [form |-> "badhex"]     \* a string hexToBytes rejects
GarbageTx == [form |-> "garbage"]   \* well-formed hex that is no transaction

Tx(version, lockTime, ins, outs) ==
    [form |-> "tx", version |-> version, lockTime |-> lockTime,
     ins |-> ins, outs |-> outs]

Thrown(error) == [kind |-> "thrown", error |-> error]

\* A parser that takes bytes that are no transaction for an empty transaction.
TransactionFromRawLenient(rawTransactionHex) ==
    IF rawTransactionHex.form = "badhex" THEN Thrown("hex")
    ELSE IF rawTransactionHex.form = "garbage"
    THEN [kind |-> "tx", tx |-> Tx(2, 0, <<>>, <<>>)]
    ELSE [kind |-> "tx", tx |-> rawTransactionHex]

\* hexToBytes(rawTransactionHex) followed by Transaction.fromRaw(rawTxBytes, TX_PARSE_OPTS)
TransactionFromRaw(rawTransactionHex) ==
    IF rawTransactionHex.form = "badhex" THEN Thrown("hex")
    ELSE IF rawTransactionHex.form = "garbage" THEN Thrown("parse")
    ELSE [kind |-> "tx", tx |-> rawTransactionHex]

----------------------------------------------------------------------------
(* extractOpReturnData *)

NullResult == [kind |-> "null"]
HexResult(hex) == [kind |-> "hex", hex |-> hex]

\* A loop that returns the push as it stands in the script when its decryption
\* carries the tag.
RECURSIVE ScanOutputsReturningPush(_, _, _)
ScanOutputsReturningPush(outs, arc4Key, i) ==
    IF i > Len(outs) THEN NullResult
    ELSE LET script == outs[i].script
             pushData == extractPushData(script)
             decrypted == arc4Decrypt(arc4Key.bytes, pushData.data)
         IN  IF Len(script) < 2 \/ script[1] # OP_RETURN
             THEN ScanOutputsReturningPush(outs, arc4Key, i + 1)
             ELSE IF pushData = Nothing \/ Len(pushData.data) < PrefixLen
             THEN ScanOutputsReturningPush(outs, arc4Key, i + 1)
             ELSE IF (arc4Key # Nothing /\ hasCntrprtyPrefix(decrypted))
                     \/ hasCntrprtyPrefix(pushData.data)
             THEN HexResult(bytesToHex(pushData.data))
             ELSE ScanOutputsReturningPush(outs, arc4Key, i + 1)

\* A loop that keeps scanning after a match and returns the last one.
RECURSIVE ScanOutputsLastMatch(_, _, _)
ScanOutputsLastMatch(outs, arc4Key, i) ==
    IF i > Len(outs) THEN NullResult
    ELSE LET script == outs[i].script
             pushData == extractPushData(script)
             decrypted == arc4Decrypt(arc4Key.bytes, pushData.data)
             later == ScanOutputsLastMatch(outs, arc4Key, i + 1)
         IN  IF later # NullResult THEN later
             ELSE IF Len(script) < 2 \/ script[1] # OP_RETURN THEN NullResult
             ELSE IF pushData = Nothing \/ Len(pushData.data) < PrefixLen
             THEN NullResult
             ELSE IF arc4Key # Nothing /\ hasCntrprtyPrefix(decrypted)
             THEN HexResult(bytesToHex(decrypted))
             ELSE IF hasCntrprtyPrefix(pushData.data)
             THEN HexResult(bytesToHex(pushData.data))
             ELSE NullResult

\* A loop over the outputs that ends at the first OP_RETURN push shorter than
\* the tag.
RECURSIVE ScanOutputsStopAtShortPush(_, _, _)
ScanOutputsStopAtShortPush(outs, arc4Key, i) ==
    IF i > Len(outs) THEN NullResult
    ELSE LET script == outs[i].script
             pushData == extractPushData(script)
             decrypted == arc4Decrypt(arc4Key.bytes, pushData.data)
         IN  IF Len(script) < 2 \/ script[1] # OP_RETURN
             THEN ScanOutputsStopAtShortPush(outs, arc4Key, i + 1)
             ELSE IF pushData = Nothing \/ Len(pushData.data) < PrefixLen
             THEN NullResult
             ELSE IF arc4Key # Nothing /\ hasCntrprtyPrefix(decrypted)
             THEN HexResult(bytesToHex(decrypted))
             ELSE IF hasCntrprtyPrefix(pushData.data)
             THEN HexResult(bytesToHex(pushData.data))
             ELSE ScanOutputsStopAtShortPush(outs, arc4Key, i + 1)

\* The loop over the outputs i..outputsLength, with the key of the first input.
RECURSIVE ScanOutputs(_, _, _)
ScanOutputs(outs, arc4Key, i) ==
    IF i > Len(outs) THEN NullResult
    ELSE LET script == outs[i].script
             pushData == extractPushData(script)
             decrypted == arc4Decrypt(arc4Key.bytes, pushData.data)
         IN  IF Len(script) < 2 \/ script[1] # OP_RETURN
             THEN ScanOutputs(outs, arc4Key, i + 1)
             ELSE IF pushData = Nothing \/ Len(pushData.data) < PrefixLen
             THEN ScanOutputs(outs, arc4Key, i + 1)
             ELSE IF arc4Key # Nothing /\ hasCntrprtyPrefix(decrypted)
             THEN HexResult(bytesToHex(decrypted))
             ELSE IF hasCntrprtyPrefix(pushData.data)
             THEN HexResult(bytesToHex(pushData.data))
             ELSE ScanOutputs(outs, arc4Key, i + 1)

extractOpReturnData(rawTransactionHex) ==
    LET parsed == TransactionFromRaw(rawTransactionHex)
    IN  IF parsed.kind = "thrown" THEN parsed
        ELSE LET tx == parsed.tx
                 arc4Key == IF Len(tx.ins) > 0
                            THEN [kind |-> "key", bytes |-> tx.ins[1].txid]
                            ELSE Nothing
             IN  ScanOutputs(tx.outs, arc4Key, 1)

\* A run that asks the node to decode the transaction and believes the answer.
ExtractRunViaNode(rawTransactionHex, nodeState) ==
    [result |-> IF nodeState = "up" THEN extractOpReturnData(rawTransactionHex)
                ELSE NullResult,
     requests |-> <<"POST /v2/transactions/unpack">>]

\* A run of extractOpReturnData while the node is in nodeState: what it gives
\* and the requests it sends.  The function takes the hex only and calls
\* nothing but the local parser, cipher and codec.
ExtractRun(rawTransactionHex, nodeState) ==
    [result |-> extractOpReturnData(rawTransactionHex), requests |-> <<>>]

----------------------------------------------------------------------------
(* Wallet keys, addresses and the signing config. *)

KeyBytes == 32
WifCompressedLen == 34
WifMainnet == 128
WifTestnet == 239

\* The order n of the secp256k1 group, big-endian: a private key is valid for
\* secp256k1.getPublicKey iff it has 32 bytes and 0 < key < n.
CurveOrder ==
    <<255, 255, 255, 255, 255, 255, 255, 255, 255, 255, 255, 255, 255, 255, 255, 254,
      186, 174, 220, 230, 175, 72, 160, 59, 191, 210, 94, 140, 208, 54, 65, 65>>

\* a < b for big-endian byte sequences of the same length
BytesLess(a, b) ==
    \E i \in 1..Len(a) : a[i] < b[i] /\ \A k \in 1..(i - 1) : a[k] = b[k]

ValidSecretKey(bytes) ==
    Len(bytes) = KeyBytes /\ ~AllZero(bytes) /\ BytesLess(bytes, CurveOrder)

Min(a, b) == IF a < b THEN a ELSE b

startsWith(string, prefix) ==
    Len(string) >= Len(prefix) /\ SubSeq(string, 1, Len(prefix)) = prefix

\* A classifier that knows the mainnet prefixes only.
detectAddressTypeMainnet(address) ==
    IF startsWith(address, <<"b", "c", "1", "q">>) THEN "p2wpkh"
    ELSE IF startsWith(address, <<"b", "c", "1", "p">>) THEN "p2tr"
    ELSE IF startsWith(address, <<"3">>) THEN "p2sh-p2wpkh"
    ELSE "p2pkh"

detectAddressType(address) ==
    IF startsWith(address, <<"b", "c", "1", "q">>)
       \/ startsWith(address, <<"t", "b", "1", "q">>) THEN "p2wpkh"
    ELSE IF startsWith(address, <<"b", "c", "1", "p">>)
            \/ startsWith(address, <<"t", "b", "1", "p">>) THEN "p2tr"
    ELSE IF startsWith(address, <<"3">>) \/ startsWith(address, <<"2">>)
    THEN "p2sh-p2wpkh"
    ELSE "p2pkh"

\* A decoder that takes one byte less of the key.
decodeWIFShortSlice(wif) ==
    IF ~wif.checksumOk THEN [ok |-> FALSE, error |-> "Invalid checksum"]
    ELSE LET decoded == wif.payload
         IN  IF Len(decoded) = 0
                \/ (decoded[1] # WifMainnet /\ decoded[1] # WifTestnet)
             THEN [ok |-> FALSE, error |-> "Invalid WIF version byte"]
             ELSE [ok |-> TRUE,
                   privateKey |-> bytesToHex(SubSeq(decoded, 2, Min(KeyBytes, Len(decoded)))),
                   compressed |-> (Len(decoded) = WifCompressedLen)]

\* base58check.encode of the version byte, the key and the compression marker:
\* the string that base58check.decode takes back to these bytes.
encodeWIF(version, key, compressed) ==
    [checksumOk |-> TRUE,
     payload |-> <<version>> \o key \o (IF compressed THEN <<1>> ELSE <<>>)]

\* A WIF string is modelled by what base58check.decode makes of it: whether the
\* checksum verifies, and the decoded bytes (version byte first).
decodeWIF(wif) ==
    IF ~wif.checksumOk THEN [ok |-> FALSE, error |-> "Invalid checksum"]
    ELSE LET decoded == wif.payload
         IN  IF Len(decoded) = 0
                \/ (decoded[1] # WifMainnet /\ decoded[1] # WifTestnet)
             THEN [ok |-> FALSE, error |-> "Invalid WIF version byte"]
             ELSE [ok |-> TRUE,
                   privateKey |-> bytesToHex(SubSeq(decoded, 2, Min(KeyBytes + 1, Len(decoded)))),
                   compressed |-> (Len(decoded) = WifCompressedLen)]

NoConfig == [kind |-> "null"]

\* An initSigningConfig without the try around decodeWIF.
initSigningConfigUncaught(env) ==
    LET wif == env.SIGNER_PRIVATE_KEY
        address == env.SIGNER_ADDRESS
    IN  IF wif = Nothing /\ address = Nothing
        THEN [config |-> NoConfig, errors |-> <<>>]
        ELSE IF wif = Nothing \/ address = Nothing
        THEN [config |-> NoConfig, errors |-> <<"Got only one">>]
        ELSE LET decoded == decodeWIF(wif.value)
             IN  IF ~decoded.ok
                 THEN [kind |-> "thrown", error |-> decoded.error]
                 ELSE [config |->
                          [kind |-> "config",
                           privateKeyHex |-> decoded.privateKey,
                           compressed |-> decoded.compressed,
                           address |-> address.value,
                           addressType |-> detectAddressType(address.value)],
                       errors |-> <<>>]

\* env gives SIGNER_PRIVATE_KEY and SIGNER_ADDRESS, each a value or Nothing
\* (unset or empty: both are falsy).  The result carries the config (or
\* NoConfig) and the lines written with console.error.
initSigningConfig(env) ==
    LET wif == env.SIGNER_PRIVATE_KEY
        address == env.SIGNER_ADDRESS
    IN  IF wif = Nothing /\ address = Nothing
        THEN [config |-> NoConfig, errors |-> <<>>]
        ELSE IF wif = Nothing \/ address = Nothing
        THEN [config |-> NoConfig, errors |-> <<"Got only one">>]
        ELSE LET decoded == decodeWIF(wif.value)
             IN  IF ~decoded.ok
                 THEN [config |-> NoConfig,
                       errors |-> <<"Invalid SIGNER_PRIVATE_KEY", decoded.error>>]
                 ELSE [config |->
                          [kind |-> "config",
                           privateKeyHex |-> decoded.privateKey,
                           compressed |-> decoded.compressed,
                           address |-> address.value,
                           addressType |-> detectAddressType(address.value)],
                       errors |-> <<>>]

Some(v) == [kind |-> "some", value |-> v]

----------------------------------------------------------------------------
(* signTransaction *)

\* 0xfffffffd, as the four bytes of the 32-bit field, most significant first.
SEQUENCE_RBF == <<255, 255, 255, 253>>
SIGHASH_ALL == 1
DefaultVersion == 2
DefaultLockTime == 0

\* An optional array argument: omitted, or present with its items.
Omitted == [present |-> FALSE]
Given(items) == [present |-> TRUE, items |-> items]

\* A lock-script string: malformed hex, or the hex of a script.  A script is
\* given by its type and the private key whose public key it pays to.
BadLockHex == [hex |-> "bad"]
LockHex(script) == [hex |-> "ok", script |-> script]
Script(type, key) == [type |-> type, key |-> key]

\* secp256k1.getPublicKey(hexToBytes(privateKeyHex), compressed): the decoded
\* copy of the key is a buffer of its own, which nothing overwrites.
getPublicKey(privateKeyHex, compressed) ==
    LET decoded == hexToBytes(privateKeyHex)
    IN  IF ~decoded.ok THEN [ok |-> FALSE, error |-> "hex", scratch |-> <<>>]
        ELSE IF ~ValidSecretKey(decoded.bytes)
        THEN [ok |-> FALSE, error |-> "invalid private key", scratch |-> decoded.bytes]
        ELSE [ok |-> TRUE,
              pubkey |-> [of |-> decoded.bytes, compressed |-> compressed],
              scratch |-> decoded.bytes]

\* p2wpkh(pubkeyBytes).script
P2wpkhScript(pubkeyBytes) == Script("p2wpkh", pubkeyBytes.of)

\* hasApiData without the two length tests.
hasApiDataPresentOnly(inputValues, lockScripts) ==
    inputValues.present /\ lockScripts.present

hasApiData(inputValues, lockScripts) ==
    /\ inputValues.present
    /\ lockScripts.present
    /\ Len(inputValues.items) > 0
    /\ Len(lockScripts.items) > 0

\* A loop body that falls back to the last entry given when entry i is missing.
InputDataDefaulting(input, config, pubkeyBytes, inputValues, lockScripts, i) ==
    LET l == lockScripts.items[Min(i, Len(lockScripts.items))]
        v == inputValues.items[Min(i, Len(inputValues.items))]
    IN  IF Len(lockScripts.items) = 0 \/ l.hex = "bad" THEN Thrown("hex")
        ELSE IF Len(inputValues.items) = 0 THEN Thrown("BigInt")
        ELSE [kind |-> "input",
              txid |-> input.txid,
              index |-> input.index,
              sequence |-> SEQUENCE_RBF,
              sighashType |-> SIGHASH_ALL,
              witnessUtxo |-> [script |-> l.script, amount |-> v],
              redeemScript |->
                  IF config.addressType = "p2sh-p2wpkh"
                  THEN Some(P2wpkhScript(pubkeyBytes))
                  ELSE Nothing,
              partialSig |-> FALSE,
              finalized |-> FALSE]

\* A loop body that leaves each input the sequence number it came with.
InputDataKeepingSequence(input, config, pubkeyBytes, inputValues, lockScripts, i) ==
    IF "txid" \notin DOMAIN input \/ "index" \notin DOMAIN input
    THEN Thrown("Invalid input")
    ELSE IF i > Len(lockScripts.items) \/ lockScripts.items[i].hex = "bad"
    THEN Thrown("hex")
    ELSE IF i > Len(inputValues.items)
    THEN Thrown("BigInt")
    ELSE [kind |-> "input",
          txid |-> input.txid,
          index |-> input.index,
          sequence |-> input.sequence,
          sighashType |-> SIGHASH_ALL,
          witnessUtxo |-> [script |-> lockScripts.items[i].script,
                           amount |-> inputValues.items[i]],
          redeemScript |->
              IF config.addressType # "p2pkh" /\ config.addressType = "p2sh-p2wpkh"
              THEN Some(P2wpkhScript(pubkeyBytes))
              ELSE Nothing,
          partialSig |-> FALSE,
          finalized |-> FALSE]

\* The body of the loop over the inputs for index i (1-based): the input data
\* handed to tx.addInput, or what is thrown.
InputData(input, config, pubkeyBytes, inputValues, lockScripts, i) ==
    IF "txid" \notin DOMAIN input \/ "index" \notin DOMAIN input
    THEN Thrown("Invalid input")
    ELSE IF i > Len(lockScripts.items) \/ lockScripts.items[i].hex = "bad"
    THEN Thrown("hex")                      \* hexToBytes(lockScripts[i])
    ELSE IF i > Len(inputValues.items)
    THEN Thrown("BigInt")                   \* BigInt(undefined)
    ELSE [kind |-> "input",
          txid |-> input.txid,
          index |-> input.index,
          sequence |-> SEQUENCE_RBF,
          sighashType |-> SIGHASH_ALL,
          witnessUtxo |-> [script |-> lockScripts.items[i].script,
                           amount |-> inputValues.items[i]],
          redeemScript |->
              IF config.addressType # "p2pkh" /\ config.addressType = "p2sh-p2wpkh"
              THEN Some(P2wpkhScript(pubkeyBytes))
              ELSE Nothing,
          partialSig |-> FALSE,
          finalized |-> FALSE]

\* The loop over the inputs from index i on: the inputs added, or the first throw.
RECURSIVE AddInputs(_, _, _, _, _, _)
AddInputs(ins, config, pubkeyBytes, inputValues, lockScripts, i) ==
    IF i > Len(ins) THEN [kind |-> "ok", ins |-> <<>>]
    ELSE LET data == InputData(ins[i], config, pubkeyBytes, inputValues, lockScripts, i)
             rest == AddInputs(ins, config, pubkeyBytes, inputValues, lockScripts, i + 1)
         IN  IF data.kind = "thrown" THEN data
             ELSE IF rest.kind = "thrown" THEN rest
             ELSE [kind |-> "ok", ins |-> <<data>> \o rest.ins]

\* A loop over the outputs that adds them last to first.
CopyOutputsReversed(outs) ==
    [i \in 1..Len(outs) |->
        [script |-> outs[Len(outs) + 1 - i].script,
         amount |-> outs[Len(outs) + 1 - i].amount]]

\* The loop over the outputs: each is added with its script and its amount.
CopyOutputs(outs) ==
    [i \in 1..Len(outs) |-> [script |-> outs[i].script, amount |-> outs[i].amount]]

\* Transaction.signIdx of btc-signer: whether the key signs the input.  A P2SH
\* input needs its redeem script; a taproot key-path spend needs tapInternalKey,
\* which signTransaction never attaches.
SignsInput(privateKey, input) ==
    LET script == input.witnessUtxo.script
    IN  /\ ValidSecretKey(privateKey)
        /\ script.key = privateKey
        /\ \/ script.type \in {"p2wpkh", "p2pkh"}
           \/ script.type = "p2sh-p2wpkh"
              /\ input.redeemScript = Some(Script("p2wpkh", privateKey))

\* tx.sign(privateKeyBytes): signs every input it can, throws when it signed none.
TxSign(ins, privateKey) ==
    LET signed == [i \in 1..Len(ins) |->
                      [ins[i] EXCEPT !.partialSig = SignsInput(privateKey, ins[i])]]
    IN  IF \A i \in 1..Len(ins) : ~signed[i].partialSig
        THEN Thrown("No inputs signed")
        ELSE [kind |-> "ok", ins |-> signed]

RECURSIVE Sum(_)
Sum(amounts) == IF amounts = <<>> THEN 0 ELSE Head(amounts) + Sum(Tail(amounts))

Fee(ins, outs) ==
    Sum([i \in 1..Len(ins) |-> ins[i].witnessUtxo.amount])
    - Sum([i \in 1..Len(outs) |-> outs[i].amount])

\* A finalize that skips the inputs without a signature instead of throwing.
TxFinalizeSigned(ins, outs) ==
    IF Len(ins) > 0 /\ Fee(ins, outs) < 0
    THEN Thrown("Outputs spends more than inputs amount")
    ELSE [kind |-> "ok",
          ins |-> [i \in 1..Len(ins) |->
                      [ins[i] EXCEPT !.finalized = ins[i].partialSig]]]

\* tx.finalize(): finalizeIdx for every input; it throws for a negative fee and
\* for an input without a signature.
TxFinalize(ins, outs) ==
    IF Len(ins) > 0 /\ Fee(ins, outs) < 0
    THEN Thrown("Outputs spends more than inputs amount")
    ELSE IF \E i \in 1..Len(ins) : ~ins[i].partialSig
    THEN Thrown("Not enough partial sign")
    ELSE [kind |-> "ok",
          ins |-> [i \in 1..Len(ins) |-> [ins[i] EXCEPT !.finalized = TRUE]]]

Returned(value) == [kind |-> "returned", value |-> value]

\* The try block of signTransaction: its outcome and the buffers it allocated.
TryBlock(rawTransactionHex, config, inputValues, lockScripts, privateKeyBytes) ==
    LET derived == getPublicKey(config.privateKeyHex, config.compressed)
        parsed == TransactionFromRaw(rawTransactionHex)
        added == AddInputs(parsed.tx.ins, config, derived.pubkey,
                           inputValues, lockScripts, 1)
        outs == CopyOutputs(parsed.tx.outs)
        signed == TxSign(added.ins, privateKeyBytes)
        final == TxFinalize(signed.ins, outs)
        outcome ==
            IF ~derived.ok THEN Thrown(derived.error)
            ELSE IF ~hasApiData(inputValues, lockScripts)
            THEN Thrown("Signing requires inputs_values and lock_scripts")
            ELSE IF parsed.kind = "thrown" THEN parsed
            ELSE IF added.kind = "thrown" THEN added
            ELSE IF signed.kind = "thrown" THEN signed
            ELSE IF final.kind = "thrown" THEN final
            ELSE Returned(Tx(DefaultVersion, DefaultLockTime, final.ins, outs))
    IN  [outcome |-> outcome, scratch |-> derived.scratch]

\* A cleanup that runs only when the try block completes.
FillOnReturn(outcome, privateKeyBytes) ==
    IF outcome.kind = "thrown" THEN privateKeyBytes ELSE FillZero(privateKeyBytes)

\* The finally block: privateKeyBytes.fill(0), whatever the outcome.
FinallyBlock(outcome, privateKeyBytes) == FillZero(privateKeyBytes)

\* A byte buffer the call created, named by the place that created it.
Buffer(owner, bytes) == [owner |-> owner, bytes |-> bytes]

\* The outcome of the call (what it returns or throws) and the buffers it
\* leaves behind.
signTransaction(rawTransactionHex, config, inputValues, lockScripts) ==
    LET allocated == hexToBytes(config.privateKeyHex)
        try == TryBlock(rawTransactionHex, config, inputValues, lockScripts,
                        allocated.bytes)
    IN  IF ~allocated.ok
        THEN [outcome |-> Thrown("hex"), heap |-> {}]
        ELSE [outcome |-> try.outcome,
              heap |-> {Buffer("privateKeyBytes",
                               FinallyBlock(try.outcome, allocated.bytes)),
                        Buffer("getPublicKey", try.scratch)}]

----------------------------------------------------------------------------
(* The inputs the model draws. *)

SeqsUpTo(S, n) == UNION {[1..k -> S] : k \in 0..n}

KeyOne == Zeros(KeyBytes - 1) \o <<1>>      \* the key of the WIF test vector
KeyTwo == Zeros(KeyBytes - 1) \o <<2>>      \* somebody else's key

WifKeyOne == [checksumOk |-> TRUE, payload |-> <<WifMainnet>> \o KeyOne \o <<1>>]
WifZeroKey == [checksumOk |-> TRUE, payload |-> <<WifMainnet>> \o Zeros(KeyBytes) \o <<1>>]

AddrP2WPKH == <<"b", "c", "1", "q", "a", "r">>
AddrP2TR == <<"b", "c", "1", "p", "5", "d">>
AddrP2SH == <<"3", "J", "9">>
AddrP2PKH == <<"1", "A", "1">>

Env(wif, address) == [SIGNER_PRIVATE_KEY |-> wif, SIGNER_ADDRESS |-> address]

\* Environments that give a signing config: the test-vector key with an address
\* of each type, and a key that decodes to the scalar 0.
SignEnvs ==
    {Env(Some(WifKeyOne), Some(a)) : a \in {AddrP2WPKH, AddrP2TR, AddrP2SH, AddrP2PKH}}
    \cup {Env(Some(WifZeroKey), Some(AddrP2WPKH))}

SigningConfigs == {initSigningConfig(e).config : e \in SignEnvs} \ {NoConfig}

InA == [txid |-> TxidA, index |-> 0, sequence |-> <<255, 255, 255, 255>>]
InB == [txid |-> TxidB, index |-> 2, sequence |-> <<255, 255, 255, 253>>]

OutData == [script |-> ScriptEnhancedSend, amount |-> 0]
OutPay == [script |-> ScriptChange, amount |-> 10000]

TxHeaders == {[version |-> 2, lockTime |-> 0], [version |-> 1, lockTime |-> 7]}

SignTxs ==
    {BadHexTx, GarbageTx}
    \cup {Tx(h.version, h.lockTime, ins, outs) :
            h \in TxHeaders,
            ins \in SeqsUpTo({InA, InB}, MaxInputs),
            outs \in SeqsUpTo({OutData, OutPay}, MaxOutputs)}

\* inputs_values: omitted, up to MaxInputs funded values, or one value that
\* does not cover an output.
InputValueChoices ==
    {Omitted, Given(<<600>>)} \cup {Given(v) : v \in SeqsUpTo({20000}, MaxInputs)}

\* lock_scripts: omitted, malformed, or up to MaxInputs scripts paying to the
\* configured key or to another key.
LockScriptChoices ==
    {Omitted, Given(<<BadLockHex>>)}
    \cup {Given(l) : l \in SeqsUpTo({LockHex(Script("p2wpkh", KeyOne)),
                                      LockHex(Script("p2sh-p2wpkh", KeyOne)),
                                      LockHex(Script("p2wpkh", KeyTwo))}, MaxInputs)}

----------------------------------------------------------------------------
(* Direct calls of signTransaction. *)

InitIdle ==
    /\ pc = "idle"
    /\ args = Nothing
    /\ result = Nothing
    /\ heap = {}
    /\ prior = Nothing
    /\ node = "up"
    /\ requests = <<>>
    /\ locals = Nothing
    /\ steps = <<>>
    /\ agentView = Nothing

InitSign ==
    /\ signingConfig \in SigningConfigs
    /\ InitIdle

\* One call of signTransaction, from entry to return or throw.
SignCall ==
    /\ pc = "idle"
    /\ \E raw \in SignTxs, inputValues \in InputValueChoices,
          lockScripts \in LockScriptChoices :
          LET call == signTransaction(raw, signingConfig, inputValues, lockScripts)
          IN  /\ args' = [rawTransactionHex |-> raw,
                          inputValues |-> inputValues,
                          lockScripts |-> lockScripts]
              /\ result' = call.outcome
              /\ heap' = call.heap
              /\ pc' = call.outcome.kind
    /\ UNCHANGED <<signingConfig, prior, node, requests, locals, steps, agentView>>

\* The caller takes the outcome; the buffers of the call become garbage.
SignDone ==
    /\ pc \in {"returned", "thrown"}
    /\ pc' = "idle"
    /\ args' = Nothing
    /\ result' = Nothing
    /\ heap' = {}
    /\ UNCHANGED <<signingConfig, prior, node, requests, locals, steps, agentView>>

NextSign == SignCall \/ SignDone

SpecSign == InitSign /\ [][NextSign]_vars

----------------------------------------------------------------------------
(* Properties of signTransaction, checked under SpecSign. *)

Exited == pc \in {"returned", "thrown"}

MissingSpendDataError == Thrown("Signing requires inputs_values and lock_scripts")

\* inputValues or lockScripts of the call in progress is omitted or empty.
SpendDataMissing ==
    \/ ~args.inputValues.present
    \/ ~args.lockScripts.present
    \/ args.inputValues.items = <<>>
    \/ args.lockScripts.items = <<>>

\* The raw transaction of the call in progress parses.
RawParses == args.rawTransactionHex.form = "tx"

ConfiguredKey == hexToBytes(signingConfig.privateKeyHex).bytes

PrivateKeyBuffers == {b \in heap : b.owner = "privateKeyBytes"}

\* C1: on every exit path of signTransaction, by return or by throw, the
\* private-key buffer allocated at the start of the call holds only zero bytes.
C1_KeyBufferZeroedOnExit ==
    Exited =>
        /\ PrivateKeyBuffers # {}
        /\ \A b \in PrivateKeyBuffers : Len(b.bytes) = KeyBytes /\ AllZero(b.bytes)

\* C1: a call that threw out of tx.finalize, made with a key that is not zero.
C1_ThrowFromFinalize ==
    /\ pc = "thrown"
    /\ result = Thrown("Not enough partial sign")
    /\ ~AllZero(ConfiguredKey)
    /\ \E b \in PrivateKeyBuffers : Len(b.bytes) = KeyBytes /\ AllZero(b.bytes)

\* C2: every byte-array copy of the key that signTransaction created, the copy
\* decoded inside getPublicKey included, is zeroed when the call has exited.
C2_EveryKeyCopyZeroed ==
    Exited => \A b \in heap : AllZero(b.bytes)

\* C3: a successfully signed transaction has the outputs of the unsigned one:
\* as many, in the same order, each with the same value and script.
C3_OutputsPreserved ==
    pc = "returned" =>
        /\ Len(result.value.outs) = Len(args.rawTransactionHex.outs)
        /\ \A i \in 1..Len(result.value.outs) :
              /\ result.value.outs[i].amount = args.rawTransactionHex.outs[i].amount
              /\ result.value.outs[i].script = args.rawTransactionHex.outs[i].script

\* C3: a signed transaction with two different outputs.
C3_SignedTwoOutputs ==
    /\ pc = "returned"
    /\ Len(args.rawTransactionHex.outs) = 2
    /\ args.rawTransactionHex.outs[1] # args.rawTransactionHex.outs[2]

\* C4 as stated: with inputValues or lockScripts omitted or empty the call
\* fails with the missing-spend-data error, for every address type.
C4_AlwaysMissingSpendDataError ==
    (Exited /\ SpendDataMissing) => result = MissingSpendDataError

\* C4 amended: with inputValues or lockScripts omitted or empty the call throws
\* and returns no hex, for every address type; what it throws is the
\* missing-spend-data error whenever the configured key is a valid secp256k1
\* scalar (public-key derivation runs first and fails for any other key).
C4_MissingSpendDataFails ==
    (Exited /\ SpendDataMissing) =>
        /\ pc = "thrown"
        /\ ValidSecretKey(ConfiguredKey) => result = MissingSpendDataError

\* C4: a taproot config, a transaction that parses, lockScripts given and
\* inputValues omitted: the call threw the missing-spend-data error.
C4_TaprootWithoutValues ==
    /\ pc = "thrown"
    /\ signingConfig.addressType = "p2tr"
    /\ RawParses
    /\ ~args.inputValues.present
    /\ args.lockScripts.present
    /\ result = MissingSpendDataError

\* C5: when inputValues and lockScripts are both non-empty and one of them is
\* shorter than the inputs of the transaction, the call throws.
C5_ShortArraysFail ==
    (/\ Exited
     /\ ~SpendDataMissing
     /\ RawParses
     /\ Min(Len(args.inputValues.items), Len(args.lockScripts.items))
            < Len(args.rawTransactionHex.ins))
    => pc = "thrown"

\* C5: two inputs, two lock scripts of the configured key, one value.
C5_OneValueForTwoInputs ==
    /\ pc = "thrown"
    /\ RawParses
    /\ Len(args.rawTransactionHex.ins) = 2
    /\ args.inputValues.present /\ Len(args.inputValues.items) = 1
    /\ args.lockScripts.present /\ Len(args.lockScripts.items) = 2
    /\ \A i \in 1..2 : /\ args.lockScripts.items[i].hex = "ok"
                       /\ args.lockScripts.items[i].script.key = ConfiguredKey
                       /\ args.lockScripts.items[i].script.type = "p2wpkh"
    /\ ValidSecretKey(ConfiguredKey)

\* C6: a transaction is returned only with every input of the raw transaction
\* signed and finalized; a call in which the lock script of some input pays to
\* another key throws.
C6_ReturnsOnlyFullySigned ==
    pc = "returned" =>
        /\ Len(result.value.ins) = Len(args.rawTransactionHex.ins)
        /\ \A i \in 1..Len(result.value.ins) :
              /\ result.value.ins[i].partialSig
              /\ result.value.ins[i].finalized
              /\ args.lockScripts.items[i].script.key = ConfiguredKey

\* C6: two inputs of which tx.sign signed the first only; the call threw.
C6_OneOfTwoSigned ==
    /\ pc = "thrown"
    /\ RawParses
    /\ Len(args.rawTransactionHex.ins) = 2
    /\ ~SpendDataMissing
    /\ Len(args.lockScripts.items) = 2 /\ Len(args.inputValues.items) = 2
    /\ args.lockScripts.items[1] = LockHex(Script("p2wpkh", ConfiguredKey))
    /\ args.lockScripts.items[2] = LockHex(Script("p2wpkh", KeyTwo))
    /\ ValidSecretKey(ConfiguredKey)
    /\ result = Thrown("Not enough partial sign")

----------------------------------------------------------------------------
(* Runs of extractOpReturnData: each hex is extracted twice, while the node *)
(* changes as it likes.                                                    *)

ExtractScripts ==
    {ScriptEnhancedSend, ScriptChange, ScriptRawTag, ScriptNearMiss,
     ScriptShortPush, ScriptPushdata1}

ExtractTxs ==
    {BadHexTx, GarbageTx}
    \cup {Tx(2, 0, ins, outs) :
            ins \in SeqsUpTo({InA, InB}, MaxInputs),
            outs \in SeqsUpTo({[script |-> sc, amount |-> 0] : sc \in ExtractScripts},
                              MaxOutputs)}

\* The node answers truthfully, answers falsely, answers with an HTTP error, or
\* is unreachable.
NodeStates == {"up", "lying", "rejecting", "down"}

InitExtract ==
    /\ signingConfig = NoConfig
    /\ InitIdle

Step(op) == [op |-> op, node |-> node]

ExtractCall ==
    /\ pc = "idle"
    /\ \E raw \in ExtractTxs :
          LET run == ExtractRun(raw, node)
          IN  /\ args' = [rawTransactionHex |-> raw]
              /\ result' = run.result
              /\ requests' = requests \o run.requests
    /\ prior' = Nothing
    /\ steps' = <<Step("extract")>>
    /\ pc' = "extracted"
    /\ UNCHANGED <<signingConfig, heap, node, locals, agentView>>

ExtractAgain ==
    /\ pc = "extracted"
    /\ LET run == ExtractRun(args.rawTransactionHex, node)
       IN  /\ result' = run.result
           /\ requests' = requests \o run.requests
    /\ prior' = result
    /\ steps' = Append(steps, Step("extract"))
    /\ pc' = "repeated"
    /\ UNCHANGED <<signingConfig, args, heap, node, locals, agentView>>

ExtractDone ==
    /\ pc = "repeated"
    /\ pc' = "idle"
    /\ args' = Nothing
    /\ result' = Nothing
    /\ prior' = Nothing
    /\ requests' = <<>>
    /\ steps' = <<>>
    /\ UNCHANGED <<signingConfig, heap, node, locals, agentView>>

\* The node is outside the process: it changes state at any moment.
NodeChanges ==
    /\ node' \in NodeStates \ {node}
    /\ UNCHANGED <<signingConfig, pc, args, result, heap, prior, requests,
                   locals, steps, agentView>>

NextExtract == ExtractCall \/ ExtractAgain \/ ExtractDone \/ NodeChanges

SpecExtract == InitExtract /\ [][NextExtract]_vars

----------------------------------------------------------------------------
(* Properties of extractOpReturnData, checked under SpecExtract. *)

BeginsWithTag(data) ==
    Len(data) >= Len(CNTRPRTY_PREFIX)
    /\ SubSeq(data, 1, Len(CNTRPRTY_PREFIX)) = CNTRPRTY_PREFIX

IsOpReturn(script) == Len(script) >= 1 /\ script[1] = OP_RETURN

\* The push of the script begins with the tag, as it stands or decrypted with
\* the txid of the first input of tx.
TaggedPush(tx, script) ==
    LET pushData == extractPushData(script)
    IN  /\ IsOpReturn(script)
        /\ pushData # Nothing
        /\ \/ BeginsWithTag(pushData.data)
           \/ /\ Len(tx.ins) > 0
              /\ BeginsWithTag(arc4Decrypt(tx.ins[1].txid, pushData.data))

C10_NullWithoutTaggedPush ==
    (/\ pc \in {"extracted", "repeated"}
     /\ RawParses
     /\ \/ \A i \in 1..Len(args.rawTransactionHex.outs) :
              ~IsOpReturn(args.rawTransactionHex.outs[i].script)
        \/ \A i \in 1..Len(args.rawTransactionHex.outs) :
              ~TaggedPush(args.rawTransactionHex, args.rawTransactionHex.outs[i].script))
    => result = NullResult

\* C10: a transaction with an input, a payment output and an OP_RETURN output
\* whose push misses the tag by its last byte: the result is null.
C10_NearMissGivesNull ==
    /\ pc = "extracted"
    /\ RawParses
    /\ Len(args.rawTransactionHex.ins) > 0
    /\ Len(args.rawTransactionHex.outs) = 2
    /\ args.rawTransactionHex.outs[1].script = ScriptChange
    /\ args.rawTransactionHex.outs[2].script = ScriptNearMiss
    /\ result = NullResult

----------------------------------------------------------------------------
(* The sign_and_broadcast tool (src/src/tools/bitcoin.ts), wrapped by        *)
(* safeHandler (src/unnamed/part_001).                                     *)

jsonResponse(data) == [isError |-> FALSE, data |-> data]

\* errorResponse: the message of the error as the one text item, isError true.
errorResponse(error) ==
    [isError |-> TRUE, content |-> <<[type |-> "text", text |-> error]>>]

\* A wrapper that lets what the handler throws reject the promise.
safeHandlerRethrowing(outcome) ==
    IF outcome.kind = "thrown" THEN [rejected |-> outcome.error]
    ELSE outcome.value

\* safeHandler(fn): what the wrapped handler resolves with, given what fn
\* returned or threw.
safeHandler(outcome) ==
    IF outcome.kind = "thrown" THEN errorResponse(outcome.error)
    ELSE outcome.value

\* ApiClient.get / ApiClient.post against a node in nodeState: the parsed body,
\* the error built from a response that is not ok, or the rejection of fetch.
ApiRequest(nodeState) ==
    IF nodeState \in {"up", "lying"} THEN Returned([answeredBy |-> nodeState])
    ELSE IF nodeState = "rejecting" THEN Thrown("Counterparty API error")
    ELSE Thrown("fetch failed")

\* A registration that does not look at the signing config.
registerBitcoinToolsAlways(config) ==
    {"broadcast_transaction", "sign_and_broadcast", "get_fee_estimate",
     "decode_transaction"}

\* registerBitcoinTools: the names of the tools it registers.
registerBitcoinTools(config) ==
    {"broadcast_transaction", "get_fee_estimate", "decode_transaction"}
    \cup (IF config # NoConfig THEN {"sign_and_broadcast"} ELSE {})

BadWif == [checksumOk |-> FALSE, payload |-> <<>>]

\* The environments the server starts in: those of SignEnvs, nothing set, one
\* variable set, and a key that does not decode.
ServerEnvs ==
    SignEnvs
    \cup {Env(Nothing, Nothing), Env(Some(WifKeyOne), Nothing),
          Env(Some(BadWif), Some(AddrP2WPKH))}

OwnLock == LockHex(Script("p2wpkh", KeyOne))
OwnWrappedLock == LockHex(Script("p2sh-p2wpkh", KeyOne))
ForeignLock == LockHex(Script("p2wpkh", KeyTwo))

ToolTxs ==
    {BadHexTx, GarbageTx,
     Tx(2, 0, <<InA>>, <<OutData, OutPay>>),
     Tx(2, 0, <<InB>>, <<OutPay>>),
     Tx(1, 7, <<InA, InB>>, <<OutPay, OutData>>)}

ToolValues == {Omitted, Given(<<20000>>), Given(<<20000, 20000>>)}

ToolLocks ==
    {Omitted, Given(<<OwnLock>>), Given(<<OwnWrappedLock>>),
     Given(<<OwnLock, OwnLock>>), Given(<<OwnLock, ForeignLock>>)}

Init ==
    /\ signingConfig \in {initSigningConfig(env).config : env \in ServerEnvs}
    /\ InitIdle

NoLocals == [opReturnData |-> Nothing, signedHex |-> Nothing, data |-> Nothing]

\* The agent calls sign_and_broadcast, which is there when it was registered.
SabCall ==
    /\ pc = "idle"
    /\ "sign_and_broadcast" \in registerBitcoinTools(signingConfig)
    /\ \E raw \in ToolTxs, values \in ToolValues, locks \in ToolLocks :
          args' = [tool |-> "sign_and_broadcast", raw_transaction |-> raw,
                   inputs_values |-> values, lock_scripts |-> locks]
    /\ locals' = NoLocals
    /\ pc' = "called"
    /\ UNCHANGED <<signingConfig, result, heap, prior, node, requests, steps, agentView>>

\* A signing that runs as the first statement of the handler.
SabSignFirst ==
    /\ pc = "called"
    /\ LET call == signTransaction(args.raw_transaction, signingConfig,
                                   args.inputs_values, args.lock_scripts)
       IN  /\ heap' = call.heap
           /\ IF call.outcome.kind = "thrown"
              THEN /\ result' = call.outcome
                   /\ agentView' = safeHandler(call.outcome)
                   /\ pc' = "responded"
                   /\ UNCHANGED locals
              ELSE /\ locals' = [locals EXCEPT !.signedHex = call.outcome.value]
                   /\ pc' = "called"
                   /\ UNCHANGED <<result, agentView>>
    /\ steps' = Append(steps, Step("sign"))
    /\ UNCHANGED <<signingConfig, args, prior, node, requests>>

\* const opReturnData = extractOpReturnData(raw_transaction)
SabExtract ==
    /\ pc = "called"
    /\ LET run == ExtractRun(args.raw_transaction, node)
       IN  /\ requests' = requests \o run.requests
           /\ IF run.result.kind = "thrown"
              THEN /\ result' = run.result
                   /\ agentView' = safeHandler(run.result)
                   /\ pc' = "responded"
                   /\ UNCHANGED locals
              ELSE /\ locals' = [locals EXCEPT !.opReturnData = run.result]
                   /\ pc' = "extracted"
                   /\ UNCHANGED <<result, agentView>>
    /\ steps' = Append(steps, Step("extract"))
    /\ UNCHANGED <<signingConfig, args, heap, prior, node>>

\* const signedHex = signTransaction(raw_transaction, signingConfig, ...)
SabSign ==
    /\ pc = "extracted"
    /\ LET call == signTransaction(args.raw_transaction, signingConfig,
                                   args.inputs_values, args.lock_scripts)
       IN  /\ heap' = call.heap
           /\ IF call.outcome.kind = "thrown"
              THEN /\ result' = call.outcome
                   /\ agentView' = safeHandler(call.outcome)
                   /\ pc' = "responded"
                   /\ UNCHANGED locals
              ELSE /\ locals' = [locals EXCEPT !.signedHex = call.outcome.value]
                   /\ pc' = "signed"
                   /\ UNCHANGED <<result, agentView>>
    /\ steps' = Append(steps, Step("sign"))
    /\ UNCHANGED <<signingConfig, args, prior, node, requests>>

\* client.post('/v2/bitcoin/transactions', {signedhex}): the request leaves.
SabPost ==
    /\ pc = "signed"
    /\ requests' = Append(requests, [method |-> "POST",
                                     endpoint |-> "/v2/bitcoin/transactions",
                                     signedhex |-> locals.signedHex])
    /\ steps' = Append(steps, Step("post"))
    /\ pc' = "awaiting"
    /\ UNCHANGED <<signingConfig, args, result, heap, prior, node, locals, agentView>>

\* A settle that sends the POST again when it failed.
SabSettleRetrying ==
    /\ pc = "awaiting"
    /\ args.tool = "sign_and_broadcast"
    /\ LET data == ApiRequest(node)
       IN  IF data.kind = "thrown"
           THEN /\ requests' = Append(requests, requests[Len(requests)])
                /\ pc' = "awaiting"
                /\ UNCHANGED <<locals, result, agentView>>
           ELSE /\ locals' = [locals EXCEPT !.data = data.value]
                /\ result' = Returned(jsonResponse(
                                 [op_return_data |-> locals.opReturnData,
                                  has_counterparty_data |->
                                      (locals.opReturnData # NullResult),
                                  signed_transaction |-> locals.signedHex,
                                  broadcast_result |-> data.value]))
                /\ agentView' = safeHandler(result')
                /\ pc' = "responded"
                /\ UNCHANGED requests
    /\ UNCHANGED <<signingConfig, args, heap, prior, node, steps>>

\* The fetch settles: the handler returns jsonResponse(...), or post throws, and
\* safeHandler resolves with the one or the other.
SabSettle ==
    /\ pc = "awaiting"
    /\ args.tool = "sign_and_broadcast"
    /\ LET data == ApiRequest(node)
           outcome ==
               IF data.kind = "thrown" THEN data
               ELSE Returned(jsonResponse(
                        [op_return_data |-> locals.opReturnData,
                         has_counterparty_data |-> (locals.opReturnData # NullResult),
                         signed_transaction |-> locals.signedHex,
                         broadcast_result |-> data.value]))
       IN  /\ locals' = IF data.kind = "thrown" THEN locals
                        ELSE [locals EXCEPT !.data = data.value]
           /\ result' = outcome
           /\ agentView' = safeHandler(outcome)
    /\ pc' = "responded"
    /\ UNCHANGED <<signingConfig, args, heap, prior, node, requests, steps>>

\* The tools that hand one request to the node and return its answer.
PlainTools ==
    [broadcast_transaction |-> [method |-> "POST", endpoint |-> "/v2/bitcoin/transactions"],
     get_fee_estimate |-> [method |-> "GET", endpoint |-> "/v2/bitcoin/estimatesmartfee"],
     decode_transaction |-> [method |-> "GET",
                             endpoint |-> "/v2/bitcoin/transactions/decode"]]

\* The agent calls broadcast_transaction, get_fee_estimate or decode_transaction:
\* the handler sends its request.
PlainCall ==
    /\ pc = "idle"
    /\ \E tool \in DOMAIN PlainTools \cap registerBitcoinTools(signingConfig) :
          /\ args' = [tool |-> tool]
          /\ requests' = Append(requests, PlainTools[tool])
    /\ locals' = NoLocals
    /\ pc' = "awaiting"
    /\ UNCHANGED <<signingConfig, result, heap, prior, node, steps, agentView>>

\* The fetch of such a tool settles: return jsonResponse(data), or what the
\* client threw, through safeHandler.
PlainSettle ==
    /\ pc = "awaiting"
    /\ args.tool \in DOMAIN PlainTools
    /\ LET data == ApiRequest(node)
           outcome == IF data.kind = "thrown" THEN data
                      ELSE Returned(jsonResponse(data.value))
       IN  /\ result' = outcome
           /\ agentView' = safeHandler(outcome)
    /\ pc' = "responded"
    /\ UNCHANGED <<signingConfig, args, heap, prior, node, requests, locals, steps>>

\* The agent has the response; the invocation is over.
SabDone ==
    /\ pc = "responded"
    /\ pc' = "idle"
    /\ args' = Nothing
    /\ result' = Nothing
    /\ locals' = Nothing
    /\ heap' = {}
    /\ requests' = <<>>
    /\ steps' = <<>>
    /\ agentView' = Nothing
    /\ UNCHANGED <<signingConfig, prior, node>>

Next ==
    \/ SabCall \/ SabExtract \/ SabSign \/ SabPost \/ SabSettle
    \/ PlainCall \/ PlainSettle
    \/ SabDone \/ NodeChanges

Spec == Init /\ [][Next]_vars

----------------------------------------------------------------------------
(* Properties of sign_and_broadcast, checked under Spec. *)

Ops == [i \in 1..Len(steps) |-> steps[i].op]

HandlerOrder == <<"extract", "sign", "post">>

\* C8: in every execution of sign_and_broadcast the steps taken so far are the
\* local extraction, then the signing, then the broadcast POST, in that order.
C8_ExtractSignPostOrder ==
    /\ Len(steps) <= Len(HandlerOrder)
    /\ \A i \in 1..Len(steps) : Ops[i] = HandlerOrder[i]

\* C8: an invocation that has extracted, signed and sent the POST.
C8_AllThreeSteps ==
    /\ pc = "awaiting"
    /\ Ops = HandlerOrder
    /\ Len(requests) = 1

\* C9: once sign_and_broadcast has signed the transaction, the calling agent
\* has already received the OP_RETURN data extracted from it.
C9_AgentSeesDataBeforeSigning ==
    (\E i \in 1..Len(steps) : steps[i].op = "sign") =>
        /\ agentView # Nothing
        /\ ~agentView.isError
        /\ agentView.data.op_return_data = locals.opReturnData

----------------------------------------------------------------------------
(* Further properties of extractOpReturnData, checked under SpecExtract. *)

Extracted == pc \in {"extracted", "repeated"}

TagHex == <<"4", "3", "4", "e", "5", "4", "5", "2", "5", "0", "5", "2", "5", "4", "5", "9">>

\* The push of the script decrypts, under the txid of the first input of tx, to
\* bytes that begin with the tag.
EncryptedTaggedPush(tx, script) ==
    LET pushData == extractPushData(script)
    IN  /\ IsOpReturn(script)
        /\ pushData # Nothing
        /\ Len(tx.ins) > 0
        /\ BeginsWithTag(arc4Decrypt(tx.ins[1].txid, pushData.data))

\* The bytes a matching output carries: the decryption of its push when that
\* begins with the tag, the push itself otherwise.
Payload(tx, script) ==
    IF EncryptedTaggedPush(tx, script)
    THEN arc4Decrypt(tx.ins[1].txid, extractPushData(script).data)
    ELSE extractPushData(script).data

\* C11: when the push of an OP_RETURN output is the encryption, under the txid
\* of the first input, of bytes that begin with the tag (and no output before
\* it carries a tagged push), the result is the hex of those bytes; and every
\* result that is not null begins with 434e545250525459.
C11_DecryptedPayloadReturned ==
    (Extracted /\ RawParses) =>
        LET tx == args.rawTransactionHex
        IN  /\ \A i \in 1..Len(tx.outs) :
                  (/\ EncryptedTaggedPush(tx, tx.outs[i].script)
                   /\ \A j \in 1..(i - 1) : ~TaggedPush(tx, tx.outs[j].script))
                  => result = HexResult(bytesToHex(
                         arc4Decrypt(tx.ins[1].txid,
                                     extractPushData(tx.outs[i].script).data)))
            /\ result # NullResult =>
                  /\ result.kind = "hex"
                  /\ Len(result.hex) >= Len(TagHex)
                  /\ SubSeq(result.hex, 1, Len(TagHex)) = TagHex

\* C11: the outputs of the enhanced send of the test vectors, change first,
\* spending TxidA: the result is the 38 decrypted bytes in hex.
C11_EnhancedSendExtracted ==
    /\ pc = "extracted"
    /\ RawParses
    /\ Len(args.rawTransactionHex.ins) > 0
    /\ args.rawTransactionHex.ins[1].txid = TxidA
    /\ Len(args.rawTransactionHex.outs) = 2
    /\ args.rawTransactionHex.outs[1].script = ScriptChange
    /\ args.rawTransactionHex.outs[2].script = ScriptEnhancedSend
    /\ result.kind = "hex"
    /\ Len(result.hex) = 76
    /\ SubSeq(result.hex, 1, Len(TagHex)) = TagHex

\* C12: when several outputs carry a matching payload, the result is the
\* payload of the matching output with the lowest index.
C12_FirstMatchReturned ==
    (Extracted /\ RawParses) =>
        LET tx == args.rawTransactionHex
        IN  \A i \in 1..Len(tx.outs) :
               (/\ TaggedPush(tx, tx.outs[i].script)
                /\ \A j \in 1..(i - 1) : ~TaggedPush(tx, tx.outs[j].script))
               => result = HexResult(bytesToHex(Payload(tx, tx.outs[i].script)))

\* C12: an unencrypted tagged output followed by an encrypted one with another
\* payload: the result is the payload of the first.
C12_TwoMatchingOutputs ==
    /\ pc = "extracted"
    /\ RawParses
    /\ Len(args.rawTransactionHex.ins) > 0
    /\ args.rawTransactionHex.ins[1].txid = TxidA
    /\ Len(args.rawTransactionHex.outs) = 2
    /\ args.rawTransactionHex.outs[1].script = ScriptRawTag
    /\ args.rawTransactionHex.outs[2].script = ScriptEnhancedSend
    /\ result = HexResult(bytesToHex(CNTRPRTY_PREFIX \o <<1, 2>>))

\* C13: for every string of valid hex digits extractOpReturnData returns a hex
\* string or null, also when the bytes are no transaction.
C13_NeverThrowsForHex ==
    (Extracted /\ args.rawTransactionHex.form # "badhex") =>
        result.kind \in {"hex", "null"}

----------------------------------------------------------------------------
(* Properties of the tool boundary, checked under Spec. *)

\* C14: whatever a handler throws (extraction, signing, an HTTP error of the
\* node, a network failure), the wrapped handler resolves with a tool result
\* whose isError is true and whose one text item is the message of the error.
C14_ErrorsBecomeToolResults ==
    pc = "responded" =>
        /\ DOMAIN agentView \in {{"isError", "content"}, {"isError", "data"}}
        /\ result.kind = "thrown" =>
              /\ agentView.isError
              /\ agentView.content = <<[type |-> "text", text |-> result.error]>>
        /\ result.kind = "returned" => ~agentView.isError

\* C14: sign_and_broadcast extracted, signed and sent the POST, the fetch
\* failed, and the agent has the message as a tool error.
C14_NetworkFailureReported ==
    /\ pc = "responded"
    /\ args.tool = "sign_and_broadcast"
    /\ Len(steps) = 3
    /\ result = Thrown("fetch failed")
    /\ agentView.isError
    /\ agentView.content[1].text = "fetch failed"

\* C15: sign_and_broadcast is registered exactly when the signing config is
\* not null; without a config no invocation reaches signTransaction; the other
\* three bitcoin tools are registered either way.
C15_SigningToolNeedsConfig ==
    /\ ("sign_and_broadcast" \in registerBitcoinTools(signingConfig))
          <=> (signingConfig # NoConfig)
    /\ {"broadcast_transaction", "get_fee_estimate", "decode_transaction"}
          \subseteq registerBitcoinTools(signingConfig)
    /\ pc # "idle" => args.tool \in registerBitcoinTools(signingConfig)
    /\ signingConfig = NoConfig =>
          /\ heap = {}
          /\ \A i \in 1..Len(steps) : steps[i].op # "sign"
          /\ pc # "idle" => args.tool # "sign_and_broadcast"

\* C15: a server without a signing config has answered decode_transaction.
C15_PlainToolWithoutConfig ==
    /\ signingConfig = NoConfig
    /\ pc = "responded"
    /\ args.tool = "decode_transaction"
    /\ ~agentView.isError

----------------------------------------------------------------------------
(* Calls of detectAddressType, decodeWIF and initSigningConfig. *)

AddrAlphabet == {"b", "c", "t", "1", "q", "p", "3", "2", "m"}

AddressStrings == SeqsUpTo(AddrAlphabet, MaxAddrLen)

\* What base58check.decode can give: any version byte, a key, and after it
\* nothing, the compression marker, another byte or two bytes; and payloads
\* too short to hold a key.
WifPayloads ==
    {<<version>> \o key \o tail :
        version \in {WifMainnet, WifTestnet, 0},
        key \in {KeyOne, KeyTwo},
        tail \in {<<>>, <<1>>, <<2>>, <<1, 1>>}}
    \cup {<<>>, <<WifMainnet>>, <<WifMainnet, 5, 6>>}

Wifs == [checksumOk : BOOLEAN, payload : WifPayloads]

StartEnvs ==
    {Env(wif, address) :
        wif \in {Nothing} \cup {Some(w) : w \in Wifs},
        address \in {Nothing}
                    \cup {Some(a) : a \in {AddrP2WPKH, AddrP2TR, AddrP2SH, AddrP2PKH}}}

InitConfig ==
    /\ signingConfig = NoConfig
    /\ InitIdle

DetectCall ==
    /\ pc = "idle"
    /\ \E address \in AddressStrings :
          /\ args' = [address |-> address]
          /\ result' = Returned(detectAddressType(address))
    /\ pc' = "detected"
    /\ UNCHANGED <<signingConfig, heap, prior, node, requests, locals, steps, agentView>>

DecodeCall ==
    /\ pc = "idle"
    /\ \E wif \in Wifs :
          /\ args' = [wif |-> wif]
          /\ result' = decodeWIF(wif)
    /\ pc' = "decoded"
    /\ UNCHANGED <<signingConfig, heap, prior, node, requests, locals, steps, agentView>>

\* A second call of decodeWIF; the first is kept to compare.
DecodeAgain ==
    /\ pc = "decoded"
    /\ \E wif \in Wifs :
          /\ args' = [wif |-> wif]
          /\ result' = decodeWIF(wif)
    /\ prior' = [wif |-> args.wif, result |-> result]
    /\ pc' = "decodedAgain"
    /\ UNCHANGED <<signingConfig, heap, node, requests, locals, steps, agentView>>

InitConfigCall ==
    /\ pc = "idle"
    /\ \E env \in StartEnvs :
          /\ args' = [env |-> env]
          /\ result' = initSigningConfig(env)
    /\ pc' = "configured"
    /\ UNCHANGED <<signingConfig, heap, prior, node, requests, locals, steps, agentView>>

ConfigDone ==
    /\ pc \in {"detected", "decodedAgain", "configured"}
    /\ pc' = "idle"
    /\ args' = Nothing
    /\ result' = Nothing
    /\ prior' = Nothing
    /\ UNCHANGED <<signingConfig, heap, node, requests, locals, steps, agentView>>

NextConfig == DetectCall \/ DecodeCall \/ DecodeAgain \/ InitConfigCall \/ ConfigDone

SpecConfig == InitConfig /\ [][NextConfig]_vars

----------------------------------------------------------------------------
(* Properties of the config functions, checked under SpecConfig. *)

KeySet == args.env.SIGNER_PRIVATE_KEY # Nothing
AddressSet == args.env.SIGNER_ADDRESS # Nothing

\* C16: initSigningConfig never throws; it gives null and no diagnostic when
\* neither variable is set, null and a diagnostic when exactly one is set or
\* the key does not decode, and otherwise the config made of the decoded key,
\* the compression flag, the address and its detected type.
C16_InitSigningConfigOutcomes ==
    pc = "configured" =>
        /\ DOMAIN result = {"config", "errors"}
        /\ (~KeySet /\ ~AddressSet) =>
              result.config = NoConfig /\ result.errors = <<>>
        /\ (KeySet # AddressSet) =>
              result.config = NoConfig /\ result.errors # <<>>
        /\ (KeySet /\ AddressSet) =>
              LET decoded == decodeWIF(args.env.SIGNER_PRIVATE_KEY.value)
              IN  IF decoded.ok
                  THEN /\ result.errors = <<>>
                       /\ result.config =
                             [kind |-> "config",
                              privateKeyHex |-> decoded.privateKey,
                              compressed |-> decoded.compressed,
                              address |-> args.env.SIGNER_ADDRESS.value,
                              addressType |->
                                  detectAddressType(args.env.SIGNER_ADDRESS.value)]
                  ELSE result.config = NoConfig /\ result.errors # <<>>

\* C16: both variables set, the checksum of the key wrong: null, and the
\* diagnostic names the key.
C16_BadChecksumLogged ==
    /\ pc = "configured"
    /\ KeySet /\ AddressSet
    /\ ~args.env.SIGNER_PRIVATE_KEY.value.checksumOk
    /\ result.config = NoConfig
    /\ result.errors = <<"Invalid SIGNER_PRIVATE_KEY", "Invalid checksum">>

\* C17: with a valid key and a legacy P2PKH address initSigningConfig gives
\* null and logs an error; no config has the address type p2pkh.
C17_LegacyAddressRejected ==
    pc = "configured" =>
        /\ result.config # NoConfig => result.config.addressType # "p2pkh"
        /\ (KeySet /\ AddressSet /\ args.env.SIGNER_ADDRESS.value = AddrP2PKH) =>
              result.config = NoConfig /\ result.errors # <<>>

BeginsWith(string, prefix) ==
    Len(string) >= Len(prefix)
    /\ \A i \in 1..Len(prefix) : string[i] = prefix[i]

\* C18: detectAddressType gives every string one of the four tags: p2wpkh for
\* the prefixes bc1q and tb1q, p2tr for bc1p and tb1p, p2sh-p2wpkh for 3 and 2,
\* p2pkh for every other string.
C18_AddressTypePartition ==
    pc = "detected" =>
        LET a == args.address
            expected ==
                IF BeginsWith(a, <<"b", "c", "1", "q">>)
                   \/ BeginsWith(a, <<"t", "b", "1", "q">>) THEN "p2wpkh"
                ELSE IF BeginsWith(a, <<"b", "c", "1", "p">>)
                        \/ BeginsWith(a, <<"t", "b", "1", "p">>) THEN "p2tr"
                ELSE IF BeginsWith(a, <<"3">>) \/ BeginsWith(a, <<"2">>)
                THEN "p2sh-p2wpkh"
                ELSE "p2pkh"
        IN  /\ result.kind = "returned"
            /\ result.value \in {"p2pkh", "p2wpkh", "p2sh-p2wpkh", "p2tr"}
            /\ result.value = expected

\* C18: the testnet taproot prefix, classified as p2tr.
C18_TestnetTaprootPrefix ==
    /\ pc = "detected"
    /\ args.address = <<"t", "b", "1", "p">>
    /\ result = Returned("p2tr")

\* The payload is a version byte 0x80 or 0xef followed by 32 bytes, or by 32
\* bytes and the compression marker 0x01.
WellFormedPayload(payload) ==
    /\ Len(payload) \in {KeyBytes + 1, KeyBytes + 2}
    /\ payload[1] \in {WifMainnet, WifTestnet}
    /\ Len(payload) = KeyBytes + 2 => payload[KeyBytes + 2] = 1

\* C19: decodeWIF returns a key only for an input whose checksum matches,
\* whose version byte is 0x80 or 0xef, and whose payload after the version
\* byte is 32 bytes, or 33 bytes ending in 0x01.
C19_DecodeRejectsMalformed ==
    (pc \in {"decoded", "decodedAgain"} /\ result.ok) =>
        args.wif.checksumOk /\ WellFormedPayload(args.wif.payload)

\* C20 as stated: the decoded (key, compressed) pair determines the valid
\* encoding it came from, so that re-encoding the pair reproduces it.
C20_PairDeterminesEncoding ==
    (/\ pc = "decodedAgain"
     /\ args.wif.checksumOk /\ WellFormedPayload(args.wif.payload)
     /\ prior.wif.checksumOk /\ WellFormedPayload(prior.wif.payload)
     /\ result = prior.result)
    => args.wif = prior.wif

\* C20 amended: for a valid encoding k, encoding the decoded key and flag under
\* the version byte of k reproduces k (decodeWIF accepts 0x80 and 0xef and does
\* not return the version byte).
C20_ReencodingUnderVersionReproduces ==
    (/\ pc \in {"decoded", "decodedAgain"}
     /\ args.wif.checksumOk /\ WellFormedPayload(args.wif.payload))
    => /\ result.ok
       /\ encodeWIF(args.wif.payload[1], hexToBytes(result.privateKey).bytes,
                    result.compressed) = args.wif

\* C20: a valid uncompressed testnet encoding, decoded.
C20_TestnetUncompressedDecoded ==
    /\ pc = "decoded"
    /\ args.wif = [checksumOk |-> TRUE, payload |-> <<WifTestnet>> \o KeyTwo]
    /\ result.ok
    /\ ~result.compressed
    /\ result.privateKey = bytesToHex(KeyTwo)

----------------------------------------------------------------------------
(* Successive calls of signTransaction and extractOpReturnData in one process:
   the config is made once, steps lists the outcomes of the calls so far. *)

RepeatTxs ==
    {GarbageTx,
     Tx(2, 0, <<InA>>, <<OutData, OutPay>>),
     Tx(2, 0, <<InA, InB>>, <<OutPay>>)}

RepeatValues == {Omitted, Given(<<20000>>), Given(<<20000, 20000>>)}

RepeatLocks ==
    {Given(<<LockHex(Script("p2wpkh", KeyOne))>>),
     Given(<<LockHex(Script("p2sh-p2wpkh", KeyOne))>>),
     Given(<<LockHex(Script("p2wpkh", KeyOne)), LockHex(Script("p2wpkh", KeyOne))>>)}

InitRepeat ==
    /\ signingConfig \in SigningConfigs
    /\ pc = "idle"
    /\ args = Nothing
    /\ result = Nothing
    /\ heap = {}
    /\ prior = [config |-> signingConfig]
    /\ node = "up"
    /\ requests = <<>>
    /\ locals = Nothing
    /\ steps = <<>>
    /\ agentView = Nothing

\* A signTransaction whose fill(0) reaches the key the config holds.
RepeatSignSharedKey ==
    /\ pc = "idle"
    /\ Len(steps) < MaxCalls
    /\ \E raw \in RepeatTxs, inputValues \in RepeatValues, lockScripts \in RepeatLocks :
          LET call == signTransaction(raw, signingConfig, inputValues, lockScripts)
          IN  /\ args' = [fn |-> "signTransaction",
                          rawTransactionHex |-> raw,
                          inputValues |-> inputValues,
                          lockScripts |-> lockScripts]
              /\ result' = call.outcome
              /\ heap' = call.heap
              /\ steps' = Append(steps, call.outcome.kind)
    /\ signingConfig' =
          [signingConfig EXCEPT
              !.privateKeyHex = bytesToHex(FillZero(hexToBytes(@).bytes))]
    /\ pc' = "done"
    /\ UNCHANGED <<prior, node, requests, locals, agentView>>

\* signTransaction(raw, config, inputValues, lockScripts): it reads config and
\* its arguments and writes only to values it created itself.
RepeatSign ==
    /\ pc = "idle"
    /\ Len(steps) < MaxCalls
    /\ \E raw \in RepeatTxs, inputValues \in RepeatValues, lockScripts \in RepeatLocks :
          LET call == signTransaction(raw, signingConfig, inputValues, lockScripts)
          IN  /\ args' = [fn |-> "signTransaction",
                          rawTransactionHex |-> raw,
                          inputValues |-> inputValues,
                          lockScripts |-> lockScripts]
              /\ result' = call.outcome
              /\ heap' = call.heap
              /\ steps' = Append(steps, call.outcome.kind)
    /\ signingConfig' = signingConfig
    /\ pc' = "done"
    /\ UNCHANGED <<prior, node, requests, locals, agentView>>

\* extractOpReturnData(raw): it does not take the config.
RepeatExtract ==
    /\ pc = "idle"
    /\ Len(steps) < MaxCalls
    /\ \E raw \in RepeatTxs :
          /\ args' = [fn |-> "extractOpReturnData", rawTransactionHex |-> raw]
          /\ result' = extractOpReturnData(raw)
          /\ steps' = Append(steps, extractOpReturnData(raw).kind)
    /\ signingConfig' = signingConfig
    /\ pc' = "done"
    /\ UNCHANGED <<heap, prior, node, requests, locals, agentView>>

RepeatDone ==
    /\ pc = "done"
    /\ pc' = "idle"
    /\ args' = Nothing
    /\ result' = Nothing
    /\ heap' = {}
    /\ UNCHANGED <<signingConfig, prior, node, requests, locals, steps, agentView>>

NextRepeat == RepeatSign \/ RepeatExtract \/ RepeatDone

SpecRepeat == InitRepeat /\ [][NextRepeat]_vars

----------------------------------------------------------------------------
(* Further properties of signTransaction, checked under SpecSign. *)

\* What hexToBytes and Transaction.fromRaw throw for a string that is no
\* serialized transaction.
MalformedTransactionErrors == {Thrown("hex"), Thrown("parse")}

\* C22 as stated: a hex string that does not parse as a transaction makes the
\* call fail with a malformed-transaction error, whether or not spend data was
\* supplied.
C22_AlwaysMalformedTransactionError ==
    (Exited /\ ~RawParses) => result \in MalformedTransactionErrors

\* C22 amended: a hex string that does not parse as a transaction makes the
\* call throw and return nothing, whether or not spend data was supplied; what
\* it throws is the malformed-transaction error when the configured key is a
\* valid scalar and both spend-data arrays are non-empty (key derivation and
\* the spend-data check run before the parse).
C22_UnparsableHexFails ==
    (Exited /\ ~RawParses) =>
        /\ pc = "thrown"
        /\ (ValidSecretKey(ConfiguredKey) /\ ~SpendDataMissing) =>
              result \in MalformedTransactionErrors

\* C22: well-formed hex that is no transaction, with spend data supplied.
C22_GarbageWithSpendData ==
    /\ pc = "thrown"
    /\ args.rawTransactionHex = GarbageTx
    /\ ~SpendDataMissing
    /\ ValidSecretKey(ConfiguredKey)
    /\ result = Thrown("parse")

----------------------------------------------------------------------------
(* Calls of extractPushData on scripts of every shape. *)

ScriptBytes == {OP_RETURN, 0, 1, 2, MaxDirectPush, OP_PUSHDATA1, OP_PUSHDATA2, 78, 255}

\* Every script of up to MaxScriptLen bytes, and longer ones: a direct push of
\* 75 bytes and one byte short of it, PUSHDATA1 pushes of 200 bytes and one
\* byte short, PUSHDATA2 pushes of 1 and of 256 bytes and one byte short.
PushScripts ==
    SeqsUpTo(ScriptBytes, MaxScriptLen)
    \cup {<<OP_RETURN, MaxDirectPush>> \o Zeros(MaxDirectPush),
          <<OP_RETURN, MaxDirectPush>> \o Zeros(MaxDirectPush - 1),
          <<OP_RETURN, OP_PUSHDATA1, 200>> \o Zeros(200),
          <<OP_RETURN, OP_PUSHDATA1, 200>> \o Zeros(199),
          <<OP_RETURN, OP_PUSHDATA2, 1, 0, 7>>,
          <<OP_RETURN, OP_PUSHDATA2, 1, 0, 7, 9>>,
          <<OP_RETURN, OP_PUSHDATA2, 0, 1>> \o Zeros(255) \o <<7>>,
          <<OP_RETURN, OP_PUSHDATA2, 0, 1>> \o Zeros(255),
          <<OP_RETURN, 78, 1, 0, 7, 9>>}

InitPush ==
    /\ signingConfig = NoConfig
    /\ InitIdle

PushCall ==
    /\ pc = "idle"
    /\ \E script \in PushScripts :
          /\ args' = [script |-> script]
          /\ result' = extractPushData(script)
          /\ locals' = [reads |-> extractPushDataReads(script)]
    /\ pc' = "pushed"
    /\ UNCHANGED <<signingConfig, heap, prior, node, requests, steps, agentView>>

PushDone ==
    /\ pc = "pushed"
    /\ pc' = "idle"
    /\ args' = Nothing
    /\ result' = Nothing
    /\ locals' = Nothing
    /\ UNCHANGED <<signingConfig, heap, prior, node, requests, steps, agentView>>

NextPush == PushCall \/ PushDone

SpecPush == InitPush /\ [][NextPush]_vars

\* The length the script declares for its push and the number of bytes before
\* the data, when the script has OP_RETURN and a push opcode with its length
\* bytes.
Declared(script) ==
    IF Len(script) < 2 \/ script[1] # 106 THEN Nothing
    ELSE IF script[2] \in 1..75 THEN [length |-> script[2], header |-> 2]
    ELSE IF script[2] = 76 /\ Len(script) >= 3 THEN [length |-> script[3], header |-> 3]
    ELSE IF script[2] = 77 /\ Len(script) >= 4
    THEN [length |-> script[3] + script[4] * 256, header |-> 4]
    ELSE Nothing

\* C23: extractPushData reads no byte at or beyond the end of the script; it
\* returns no match for a script shorter than 2 bytes, one that does not start
\* with 0x6a, one that lacks the length bytes of PUSHDATA1 or PUSHDATA2, and
\* one shorter than header plus declared length; the data it returns is the
\* declared number of bytes, all from inside the script.
C23_PushWithinScript ==
    pc = "pushed" =>
        LET script == args.script
            d == Declared(script)
        IN  /\ \A i \in locals.reads : 0 <= i /\ i < Len(script)
            /\ (d = Nothing \/ Len(script) < d.header + d.length) => result = Nothing
            /\ result # Nothing =>
                  /\ Len(result.data) = d.length
                  /\ d.header + d.length <= Len(script)
                  /\ \A k \in 1..d.length : result.data[k] = script[d.header + k]

\* C23: a PUSHDATA1 script one byte shorter than it declares gives no match.
C23_TruncatedPushdata1 ==
    /\ pc = "pushed"
    /\ args.script = <<OP_RETURN, OP_PUSHDATA1, 200>> \o Zeros(199)
    /\ result = Nothing
    /\ locals.reads = {0, 1, 2}

\* C24: after OP_RETURN, an opcode byte in 1..75 is the length of the data
\* that starts right after it, 0x4c takes the next byte as the length, 0x4d the
\* next two bytes as a little-endian length; a script that holds the declared
\* bytes gives them, and any other second byte gives no match.
C24_ThreePushEncodings ==
    pc = "pushed" =>
        LET script == args.script
            opcode == script[2]
        IN  (Len(script) >= 2 /\ script[1] = 106) =>
               /\ (opcode \in 1..75 /\ Len(script) >= 2 + opcode) =>
                     result = [kind |-> "data", data |-> SubSeq(script, 3, 2 + opcode)]
               /\ (opcode = 76 /\ Len(script) >= 3 /\ Len(script) >= 3 + script[3]) =>
                     result = [kind |-> "data",
                               data |-> SubSeq(script, 4, 3 + script[3])]
               /\ (/\ opcode = 77
                   /\ Len(script) >= 4
                   /\ Len(script) >= 4 + script[3] + 256 * script[4]) =>
                     result = [kind |-> "data",
                               data |-> SubSeq(script, 5,
                                               4 + script[3] + 256 * script[4])]
               /\ opcode \notin 1..77 => result = Nothing

\* C24: a PUSHDATA2 push whose length bytes are 0x00 0x01 gives 256 bytes.
C24_Pushdata2LittleEndian ==
    /\ pc = "pushed"
    /\ args.script = <<OP_RETURN, OP_PUSHDATA2, 0, 1>> \o Zeros(255) \o <<7>>
    /\ result # Nothing
    /\ Len(result.data) = 256
    /\ result.data[256] = 7

----------------------------------------------------------------------------
(* Calls of arc4Decrypt: one call, and a second call on the output of the
   first under the same key. *)

CipherKeys == ShortKeys \cup {TxidA, TxidB}

CipherData == SeqsUpTo({0, 67, 255}, MaxDataLen)

InitCipher ==
    /\ signingConfig = NoConfig
    /\ InitIdle

CipherCall ==
    /\ pc = "idle"
    /\ \E key \in CipherKeys, data \in CipherData :
          /\ args' = [key |-> key, data |-> data]
          /\ result' = arc4Decrypt(key, data)
    /\ pc' = "once"
    /\ UNCHANGED <<signingConfig, heap, prior, node, requests, locals, steps, agentView>>

\* A second call that goes on with the permutation and the indices the first
\* call ended with.
CipherAgainCarrying ==
    /\ pc = "once"
    /\ result' = SubSeq(KeyStream(Scheduled(args.key), args.data \o result, 1, 0, 0),
                        Len(args.data) + 1, 2 * Len(args.data))
    /\ prior' = [output |-> result]
    /\ pc' = "twice"
    /\ UNCHANGED <<signingConfig, args, heap, node, requests, locals, steps, agentView>>

CipherAgain ==
    /\ pc = "once"
    /\ result' = arc4Decrypt(args.key, result)
    /\ prior' = [output |-> result]
    /\ pc' = "twice"
    /\ UNCHANGED <<signingConfig, args, heap, node, requests, locals, steps, agentView>>

CipherDone ==
    /\ pc = "twice"
    /\ pc' = "idle"
    /\ args' = Nothing
    /\ result' = Nothing
    /\ prior' = Nothing
    /\ UNCHANGED <<signingConfig, heap, node, requests, locals, steps, agentView>>

NextCipher == CipherCall \/ CipherAgain \/ CipherDone

SpecCipher == InitCipher /\ [][NextCipher]_vars

\* C25: for a non-empty key and any byte string d, the output of arc4Decrypt is
\* as long as d, and arc4Decrypt under the same key applied to that output
\* gives d: the second call starts from the identity permutation as the first
\* did.
C25_CipherIsInvolution ==
    /\ pc = "once" => Len(result) = Len(args.data)
    /\ pc = "twice" =>
          /\ Len(prior.output) = Len(args.data)
          /\ result = args.data

\* C25: three bytes under a two-byte key, changed by the first call and
\* restored by the second.
C25_ThreeBytesRestored ==
    /\ pc = "twice"
    /\ args.key = <<1, 2>>
    /\ args.data = <<67, 0, 255>>
    /\ prior.output # args.data
    /\ result = args.data

----------------------------------------------------------------------------
(* The order of the scan of extractOpReturnData, checked under SpecExtract. *)

\* The script is an OP_RETURN script whose push is shorter than the tag.
ShortPush(script) ==
    /\ IsOpReturn(script)
    /\ extractPushData(script) # Nothing
    /\ Len(extractPushData(script).data) < Len(CNTRPRTY_PREFIX)

\* The push of the script begins with the tag as it stands.
RawTaggedPush(script) ==
    /\ IsOpReturn(script)
    /\ extractPushData(script) # Nothing
    /\ BeginsWithTag(extractPushData(script).data)

\* C26: the outputs are examined in index order.  An OP_RETURN push shorter
\* than 8 bytes is skipped and the outputs after it are examined; an output
\* whose raw push begins with the tag is returned as it stands when a later
\* output would match after decryption; and without a first input only the raw
\* push is compared with the tag.
C26_ScanOrder ==
    (Extracted /\ RawParses) =>
        LET tx == args.rawTransactionHex
            outs == tx.outs
        IN  /\ \A i \in 1..Len(outs), k \in 1..Len(outs) :
                  (/\ i < k
                   /\ ShortPush(outs[i].script)
                   /\ TaggedPush(tx, outs[k].script)
                   /\ \A j \in 1..(k - 1) : ~TaggedPush(tx, outs[j].script))
                  => result = HexResult(bytesToHex(Payload(tx, outs[k].script)))
            /\ \A i \in 1..Len(outs), k \in 1..Len(outs) :
                  (/\ i < k
                   /\ RawTaggedPush(outs[i].script)
                   /\ ~EncryptedTaggedPush(tx, outs[i].script)
                   /\ EncryptedTaggedPush(tx, outs[k].script)
                   /\ \A j \in 1..(i - 1) : ~TaggedPush(tx, outs[j].script))
                  => result = HexResult(bytesToHex(extractPushData(outs[i].script).data))
            /\ Len(tx.ins) = 0 =>
                  /\ (\A i \in 1..Len(outs) : ~RawTaggedPush(outs[i].script))
                        => result = NullResult
                  /\ \A i \in 1..Len(outs) :
                        (/\ RawTaggedPush(outs[i].script)
                         /\ \A j \in 1..(i - 1) : ~RawTaggedPush(outs[j].script))
                        => result = HexResult(bytesToHex(
                                        extractPushData(outs[i].script).data))

\* C26: a push of four bytes in the first output, the encrypted enhanced send
\* in the second: the result is the decrypted payload of the second.
C26_ShortPushThenEnhancedSend ==
    /\ pc = "extracted"
    /\ RawParses
    /\ Len(args.rawTransactionHex.ins) > 0
    /\ args.rawTransactionHex.ins[1].txid = TxidA
    /\ Len(args.rawTransactionHex.outs) = 2
    /\ args.rawTransactionHex.outs[1].script = ScriptShortPush
    /\ args.rawTransactionHex.outs[2].script = ScriptEnhancedSend
    /\ result.kind = "hex"
    /\ Len(result.hex) = 76

----------------------------------------------------------------------------
(* The broadcast of sign_and_broadcast, checked under Spec. *)

InSignAndBroadcast == pc # "idle" /\ args.tool = "sign_and_broadcast"

BroadcastPosts ==
    {i \in 1..Len(requests) :
        requests[i].method = "POST" /\ requests[i].endpoint = "/v2/bitcoin/transactions"}

\* C27: in sign_and_broadcast a POST to /v2/bitcoin/transactions is sent only
\* after the extraction and the signing both completed without throwing, it
\* carries the signed hex, and it is sent at most once; when the extraction or
\* the signing threw, the agent has an error result and no request was sent.
C27_BroadcastOnlyAfterSigning ==
    InSignAndBroadcast =>
        /\ Cardinality(BroadcastPosts) <= 1
        /\ Len(requests) = Cardinality(BroadcastPosts)
        /\ \A i \in BroadcastPosts :
              /\ \E e \in 1..Len(steps), g \in 1..Len(steps) :
                    e < g /\ steps[e].op = "extract" /\ steps[g].op = "sign"
              /\ locals.opReturnData # Nothing
              /\ locals.opReturnData.kind # "thrown"
              /\ locals.signedHex # Nothing
              /\ requests[i].signedhex = locals.signedHex
        /\ (pc = "responded" /\ \A i \in 1..Len(steps) : steps[i].op # "post") =>
              /\ result.kind = "thrown"
              /\ agentView.isError
              /\ requests = <<>>
        /\ (pc = "responded" /\ \E i \in 1..Len(steps) : steps[i].op = "post") =>
              Cardinality(BroadcastPosts) = 1

\* C27: the signing threw after the extraction: the agent has the error and
\* nothing went to the node.
C27_SigningFailedNothingSent ==
    /\ pc = "responded"
    /\ args.tool = "sign_and_broadcast"
    /\ Ops = <<"extract", "sign">>
    /\ result = Thrown("Not enough partial sign")
    /\ agentView.isError
    /\ requests = <<>>

----------------------------------------------------------------------------
(* The transaction signTransaction builds, checked under SpecSign. *)

\* C28: the signed transaction has the inputs of the unsigned one, as many and
\* in the same order, each spending the same previous output, and the version
\* and the lock time of the unsigned transaction.
C28_InputsAndHeaderPreserved ==
    pc = "returned" =>
        /\ Len(result.value.ins) = Len(args.rawTransactionHex.ins)
        /\ \A i \in 1..Len(result.value.ins) :
              /\ result.value.ins[i].txid = args.rawTransactionHex.ins[i].txid
              /\ result.value.ins[i].index = args.rawTransactionHex.ins[i].index
        /\ result.value.version = args.rawTransactionHex.version
        /\ result.value.lockTime = args.rawTransactionHex.lockTime

\* C29: every input of the transaction signTransaction signs has the sequence
\* number 0xfffffffd and the sighash type 0x01, whatever sequence number it had
\* in the unsigned transaction; and it carries the P2WPKH redeem script of the
\* configured public key exactly when the address type of the config is
\* P2SH-P2WPKH.
C29_InputFieldsFixed ==
    pc = "returned" =>
        \A i \in 1..Len(result.value.ins) :
           LET input == result.value.ins[i]
           IN  /\ input.sequence = <<255, 255, 255, 253>>
               /\ input.sighashType = 1
               /\ (input.redeemScript # Nothing)
                     <=> (signingConfig.addressType = "p2sh-p2wpkh")
               /\ input.redeemScript # Nothing =>
                     input.redeemScript = Some(Script("p2wpkh", ConfiguredKey))

\* C29: a wrapped-segwit config signed an input that came with the sequence
\* number 0xffffffff.
C29_WrappedInputFinalSequence ==
    /\ pc = "returned"
    /\ signingConfig.addressType = "p2sh-p2wpkh"
    /\ args.rawTransactionHex.ins[1].sequence = <<255, 255, 255, 255>>
    /\ result.value.ins[1].sequence = <<255, 255, 255, 253>>
    /\ result.value.ins[1].redeemScript = Some(Script("p2wpkh", ConfiguredKey))

----------------------------------------------------------------------------
(* get_fee_estimate with its fallback.  Here node has two parts: the state of
   the Counterparty node and the state of mempool.space. *)

\* Math.round(satPerKb / 1000) for a rate above 0: halves round up.
RoundPerThousand(satPerKb) == (satPerKb + 500) \div 1000

\* The rounded rate without the floor of 1.
satPerVbUnclamped(satPerKb) == RoundPerThousand(satPerKb)

\* Math.max(1, Math.round(satPerKb / 1000))
satPerVb(satPerKb) ==
    IF RoundPerThousand(satPerKb) < 1 THEN 1 ELSE RoundPerThousand(satPerKb)

\* The sat/kB rates a node answers with, and an answer without a rate.
FeeRates == {-1, 0, 300, 499, 500, 1499, 5000}

FeeBodies == {[result |-> r] : r \in FeeRates} \cup {[error |-> "no estimate"]}

\* mempool.space answers, answers with an HTTP error, answers with a body that
\* is no JSON, or is unreachable.
FallbackStates == {"up", "rejecting", "garbled", "down"}

NodeRequest == [method |-> "GET", endpoint |-> "/v2/bitcoin/estimatesmartfee"]

FallbackRequest ==
    [method |-> "GET", endpoint |-> "https://mempool.space/api/v1/fees/recommended"]

InitFee ==
    /\ signingConfig = NoConfig
    /\ pc = "idle"
    /\ args = Nothing
    /\ result = Nothing
    /\ heap = {}
    /\ prior = Nothing
    /\ node = [counterparty |-> "up", mempool |-> "up"]
    /\ requests = <<>>
    /\ locals = Nothing
    /\ steps = <<>>
    /\ agentView = Nothing

\* The handler starts: client.get('/v2/bitcoin/estimatesmartfee', {conf_target}).
FeeCall ==
    /\ pc = "idle"
    /\ args' = [tool |-> "get_fee_estimate"]
    /\ requests' = <<NodeRequest>>
    /\ locals' = [nodeOutcome |-> Nothing, fallbackOutcome |-> Nothing]
    /\ pc' = "awaitingNode"
    /\ UNCHANGED <<signingConfig, result, heap, prior, node, steps, agentView>>

\* The node request settles.  A rate above 0 is returned in sat/vB; a throw is
\* caught, and it or any other answer leads to the fetch from mempool.space.
FeeNodeSettle ==
    /\ pc = "awaitingNode"
    /\ \E body \in FeeBodies :
          LET data == IF ApiRequest(node.counterparty).kind = "thrown"
                      THEN ApiRequest(node.counterparty)
                      ELSE Returned(body)
              positive == /\ data.kind = "returned"
                          /\ "result" \in DOMAIN data.value
                          /\ data.value.result > 0
          IN  /\ locals' = [locals EXCEPT !.nodeOutcome = data]
              /\ IF positive
                 THEN /\ result' = Returned(jsonResponse(
                                      [sat_per_vbyte |-> satPerVb(data.value.result),
                                       source |-> "counterparty",
                                       unit |-> "sat/vB"]))
                      /\ agentView' = safeHandler(result')
                      /\ pc' = "responded"
                      /\ UNCHANGED requests
                 ELSE /\ requests' = Append(requests, FallbackRequest)
                      /\ pc' = "awaitingFallback"
                      /\ UNCHANGED <<result, agentView>>
    /\ UNCHANGED <<signingConfig, args, heap, prior, node, steps>>

\* The fetch from mempool.space settles: the fees, or a throw from fetch, from
\* the test of response.ok or from response.json().
FeeFallbackSettle ==
    /\ pc = "awaitingFallback"
    /\ LET outcome ==
               IF node.mempool = "up"
               THEN Returned(jsonResponse([source |-> "mempool.space",
                                           unit |-> "sat/vB"]))
               ELSE IF node.mempool = "rejecting"
               THEN Thrown("Fee estimation failed from both Counterparty node and mempool.space")
               ELSE IF node.mempool = "garbled"
               THEN Thrown("Unexpected token")
               ELSE Thrown("fetch failed")
       IN  /\ locals' = [locals EXCEPT !.fallbackOutcome = outcome]
           /\ result' = outcome
           /\ agentView' = safeHandler(outcome)
    /\ pc' = "responded"
    /\ UNCHANGED <<signingConfig, args, heap, prior, node, requests, steps>>

FeeDone ==
    /\ pc = "responded"
    /\ pc' = "idle"
    /\ args' = Nothing
    /\ result' = Nothing
    /\ locals' = Nothing
    /\ requests' = <<>>
    /\ agentView' = Nothing
    /\ UNCHANGED <<signingConfig, heap, prior, node, steps>>

\* The node and mempool.space are outside the process.
FeeWorldChanges ==
    /\ \E c \in {"up", "rejecting", "down"}, m \in FallbackStates :
          /\ [counterparty |-> c, mempool |-> m] # node
          /\ node' = [counterparty |-> c, mempool |-> m]
    /\ UNCHANGED <<signingConfig, pc, args, result, heap, prior, requests,
                   locals, steps, agentView>>

NextFee == FeeCall \/ FeeNodeSettle \/ FeeFallbackSettle \/ FeeDone \/ FeeWorldChanges

SpecFee == InitFee /\ [][NextFee]_vars

\* The node request gave a rate above 0.
NodeGavePositiveRate ==
    /\ locals.nodeOutcome # Nothing
    /\ locals.nodeOutcome.kind = "returned"
    /\ "result" \in DOMAIN locals.nodeOutcome.value
    /\ locals.nodeOutcome.value.result > 0

\* C30: get_fee_estimate asks the Counterparty node first and mempool.space
\* only when the node request failed or gave no rate above 0; a rate above 0 is
\* returned in sat/vB, at least 1, with no request to mempool.space; the tool
\* answers with an error only when the node gave no rate above 0 and the fetch
\* from mempool.space failed too.
C30_NodeFirstThenFallback ==
    pc # "idle" =>
        /\ Len(requests) \in {1, 2}
        /\ requests[1] = NodeRequest
        /\ Len(requests) = 2 =>
              /\ requests[2] = FallbackRequest
              /\ locals.nodeOutcome # Nothing
              /\ ~NodeGavePositiveRate
        /\ (pc = "responded" /\ NodeGavePositiveRate) =>
              /\ requests = <<NodeRequest>>
              /\ ~agentView.isError
              /\ agentView.data.source = "counterparty"
              /\ agentView.data.sat_per_vbyte >= 1
              /\ 2 * agentView.data.sat_per_vbyte * 1000
                    >= 2 * locals.nodeOutcome.value.result - 1000
              /\ (agentView.data.sat_per_vbyte > 1 =>
                     2 * agentView.data.sat_per_vbyte * 1000
                        <= 2 * locals.nodeOutcome.value.result + 1000)
        /\ (pc = "responded" /\ agentView.isError) =>
              /\ ~NodeGavePositiveRate
              /\ Len(requests) = 2
              /\ locals.fallbackOutcome.kind = "thrown"
        /\ (pc = "responded" /\ ~NodeGavePositiveRate
                             /\ locals.fallbackOutcome.kind = "returned") =>
              /\ ~agentView.isError
              /\ agentView.data.source = "mempool.space"

\* C30: the node answered 300 sat/kB: the tool answers 1 sat/vB and no request
\* went to mempool.space.
C30_SmallRateClampedToOne ==
    /\ pc = "responded"
    /\ locals.nodeOutcome = Returned([result |-> 300])
    /\ agentView.data.sat_per_vbyte = 1
    /\ requests = <<NodeRequest>>

====
